---- MODULE Spec2Model ----
(***************************************************************************)
(* A model of the geometric core of criticality_monitor (cm_modular):      *)
(* the proximity graph builder, the component clusterer, the angle-biased  *)
(* router and the orchestration of Pipeline._compute.                      *)
(*                                                                         *)
(* Numbers.  The program computes in float64 metres.  The model computes   *)
(* in integers, one unit = 0.1 m (a decimetre):                            *)
(*   - planar coordinates are multiples of GridStep;                       *)
(*   - a distance is resolved to a whole metre (a multiple of 10 units),   *)
(*     so a median of distances is a multiple of 5 units and 1.6 * k_med   *)
(*     is a whole number of units: no operation of the model rounds        *)
(*     except the square root of pairwise_xy;                              *)
(*   - angles are counted in units of pi/4 rad (all point sets of the      *)
(*     model have pairwise directions that are multiples of pi/4), and     *)
(*     angle_bias_m_per_rad is the cost of one such unit of turn;          *)
(*   - the 1e-9 m tolerance of the relaxation tests is below the           *)
(*     resolution: on integers  nd < d - 1e-9  is  nd < d.                 *)
(* Python lists indexed from 0 are functions on 0..n-1 or sequences        *)
(* (1-based) as noted; dicts are functions on their key set.               *)
(***************************************************************************)
EXTENDS Integers, Sequences, FiniteSets, TLC

VARIABLES
    pc,              \* position of the operation under way
    \* ---- GraphBuilder.build_graph: arguments and results
    D, k_med, L0, penalty_factor, adj, radius_m,
    \* ---- Clusterer.assign_from_components: locals and results
    i_loop, seen, stack, nodes, comps, sizes, order, cluster_id,
    \* ---- AngleBiasedRouter: the object, dijkstra's and reconstruct_path's locals
    router, src, dist, prev_state, best_dist_to, best_last_prev, pq,
    end_node, cur, path_states, path,
    \* ---- Pipeline: the configuration and the locals of _compute
    cfg, hh, clustering_df, keep, filtered, outliers, x_f, y_f, D_f, path_df,
    path_indices, start_idx, end_idx, length_m, raised,
    \* ---- a stage called on its own: arguments that are no variable above,
    \* ---- dijkstra_plain's prev, as_geometric_adjacency's result
    call_args, prev, G,
    \* ---- run_batch: the input directory, the state file on disk, the locals
    \* ---- of the call under way, and the record of the calls made so far
    indir, state_file, processed_files, files, all_results, newly_processed,
    new_results, futures, results, i_file, returned,
    runs, attempts, completion, save_failed

graphVars   == <<D, k_med, L0, penalty_factor, adj, radius_m>>
clusterVars == <<i_loop, seen, stack, nodes, comps, sizes, order, cluster_id>>
routerVars  == <<router, src, dist, prev_state, best_dist_to, best_last_prev, pq,
                 end_node, cur, path_states, path>>
pipelineVars == <<cfg, hh, clustering_df, keep, filtered, outliers, x_f, y_f, D_f,
                  path_df, path_indices, start_idx, end_idx, length_m, raised>>
callVars    == <<call_args, prev, G>>
batchVars   == <<indir, state_file, processed_files, files, all_results, newly_processed,
                 new_results, futures, results, i_file, returned,
                 runs, attempts, completion, save_failed>>
vars        == <<pc, graphVars, clusterVars, routerVars, pipelineVars, callVars,
                 batchVars>>

(***************************************************************************)
(* Bounds of the model                                                     *)
(***************************************************************************)
\* number of points handed to build_graph / the clusterer / the router
NumNodes == 3
\* spacing of the coordinate grid, in units of 0.1 m
GridStep == 400
\* most rows of the frame handed to Pipeline._compute
MaxPoints == 10
\* most points of the matrix handed to keep_by_knn on its own
KnnPoints == 4
MaxFiles == 2
MaxRuns == 3

Nodes == 0 .. (NumNodes - 1)

(***************************************************************************)
(* Generic helpers                                                         *)
(***************************************************************************)
Min2(a, b) == IF a <= b THEN a ELSE b
Max2(a, b) == IF a >= b THEN a ELSE b
Abs(a) == IF a < 0 THEN -a ELSE a
Range(s) == {s[k] : k \in DOMAIN s}
Last(s) == s[Len(s)]
Front(s) == SubSeq(s, 1, Len(s) - 1)

RECURSIVE Reverse(_)
Reverse(s) == IF s = <<>> THEN <<>> ELSE Append(Reverse(Tail(s)), Head(s))

RECURSIVE SeqSum(_)
SeqSum(s) == IF s = <<>> THEN 0 ELSE Head(s) + SeqSum(Tail(s))

\* the function f as a table of its values, every entry computed once
RECURSIVE StoredOn(_, _)
StoredOn(S, f) ==
    IF S = {} THEN <<>>
    ELSE LET e == CHOOSE e \in S : TRUE
         IN  IF S = {e} THEN (e :> f[e]) ELSE (e :> f[e]) @@ StoredOn(S \ {e}, f)
Stored(f) == StoredOn(DOMAIN f, f)

\* float('nan')
NaN == "nan"

\* a value for a variable the operation under way does not use
None == "None"

(***************************************************************************)
(* GraphBuilder.build_graph  (graphing.py)                                 *)
(***************************************************************************)
\* a radius with the ceiling of 300 m forgotten
connection_radius_no_ceiling(kmed) == Max2(300, (16 * kmed) \div 10)

\* r = float(min(300.0, max(30.0, 1.6 * k_med)))
connection_radius(kmed) == Min2(3000, Max2(300, (16 * kmed) \div 10))

\* a radius test that leaves out the pairs at exactly the radius
within_radius_strict(d, r) == d < r

\* if D[i, j] <= r
within_radius(d, r) == d <= r

\* a cost that applies the linear term to every edge, short ones included
edge_cost_unconditional(length, l0, pf) == length + pf * (length - l0)

\* cost = length; if length > L0: cost += penalty_factor * (length - L0)
edge_cost(length, l0, pf) ==
    IF length > l0 THEN length + pf * (length - l0) ELSE length

\* an entry penalized in the direction i < j only
edge_entry_one_way(Dm, i, j, l0, pf) ==
    <<j, IF i < j THEN edge_cost(Dm[i][j], l0, pf) ELSE Dm[i][j]>>

\* length = float(D[i, j]); ...; adj[i].append((j, cost))
edge_entry(Dm, i, j, l0, pf) == <<j, edge_cost(Dm[i][j], l0, pf)>>

\* the inner loop  for j in range(n)  for one i: the list adj[i]
RECURSIVE build_row(_, _, _, _, _, _, _)
build_row(Dm, n, i, j, r, l0, pf) ==
    IF j >= n THEN <<>>
    ELSE (IF i # j /\ within_radius(Dm[i][j], r)
          THEN <<edge_entry(Dm, i, j, l0, pf)>>
          ELSE <<>>) \o build_row(Dm, n, i, j + 1, r, l0, pf)

\* build_graph(D, k_med, L0, penalty_factor) -> (adj, r)
build_graph(Dm, kmed, l0, pf) ==
    LET r == connection_radius(kmed)
        n == Cardinality(DOMAIN Dm)
    IN  [adj |-> Stored([i \in 0 .. (n - 1) |-> build_row(Dm, n, i, 0, r, l0, pf)]),
         r   |-> r]

(***************************************************************************)
(* Inputs of the graph builder                                             *)
(***************************************************************************)
\* distances (units of 0.1 m, whole metres) around the radii and around L0
DValues == {300, 310, 500, 700, 3010}
\* k_med: 1.6 * k_med is below 30 m, inside [30 m, 300 m], above 300 m
KMedValues == {0, 190, 500, 2000}
L0Values == {300, 500}
PenaltyValues == {0, 3}

\* symmetric matrices with a zero diagonal, as pairwise_xy returns them
NodePairs == {pr \in Nodes \X Nodes : pr[1] < pr[2]}
SymMatrices(vals) ==
    {[i \in Nodes |-> [j \in Nodes |->
         IF i = j THEN 0 ELSE f[<<Min2(i, j), Max2(i, j)>>]]] :
        f \in [NodePairs -> vals]}

clusterIdle == /\ i_loop = None /\ seen = None /\ stack = None /\ nodes = None
               /\ comps = None /\ sizes = None /\ order = None /\ cluster_id = None
pipelineIdle == /\ cfg = None /\ hh = None /\ clustering_df = None /\ keep = None
                /\ filtered = None /\ outliers = None /\ x_f = None /\ y_f = None
                /\ D_f = None /\ path_df = None /\ path_indices = None
                /\ start_idx = None /\ end_idx = None /\ length_m = None
                /\ raised = None
callIdle    == /\ call_args = None /\ prev = None /\ G = None
batchIdle   == /\ indir = None /\ state_file = None /\ processed_files = None
               /\ files = None /\ all_results = None /\ newly_processed = None
               /\ new_results = None /\ futures = None /\ results = None
               /\ i_file = None /\ returned = None /\ runs = None
               /\ attempts = None /\ completion = None /\ save_failed = None
routerIdle  == /\ router = None /\ src = None /\ dist = None /\ prev_state = None
               /\ best_dist_to = None /\ best_last_prev = None /\ pq = None
               /\ end_node = None /\ cur = None /\ path_states = None /\ path = None

(***************************************************************************)
(* SpecGraph: build_graph applied to every input of the bounded family     *)
(***************************************************************************)
InitGraph ==
    /\ pc = "graph_call"
    /\ D \in SymMatrices(DValues)
    /\ k_med \in KMedValues
    /\ L0 \in L0Values
    /\ penalty_factor \in PenaltyValues
    /\ adj = None /\ radius_m = None
    /\ clusterIdle /\ routerIdle /\ pipelineIdle /\ callIdle
    /\ batchIdle

BuildGraph ==
    /\ pc = "graph_call"
    /\ LET g == build_graph(D, k_med, L0, penalty_factor)
       IN  /\ adj' = g.adj
           /\ radius_m' = g.r
    /\ pc' = "graph_done"
    /\ UNCHANGED <<D, k_med, L0, penalty_factor, clusterVars, routerVars, pipelineVars, callVars>>
    /\ UNCHANGED batchVars

NextGraph == BuildGraph
SpecGraph == InitGraph /\ [][NextGraph]_vars

(***************************************************************************)
(* Clusterer.assign_from_components  (clustering.py)                       *)
(***************************************************************************)
\* number of nodes of an adjacency list:  n = len(adj)
NodeCount(a) == Cardinality(DOMAIN a)

\* a visit that marks and records a new neighbour but does not push it
dfs_visit_no_push(st, v) ==
    IF ~st.seen[v]
    THEN [seen  |-> [st.seen EXCEPT ![v] = TRUE],
          stack |-> st.stack,
          nodes |-> Append(st.nodes, v)]
    ELSE st

\* if not seen[v]: seen[v] = True; stack.append(v); nodes.append(v)
dfs_visit(st, v) ==
    IF ~st.seen[v]
    THEN [seen  |-> [st.seen EXCEPT ![v] = TRUE],
          stack |-> Append(st.stack, v),
          nodes |-> Append(st.nodes, v)]
    ELSE st

\* for v, _ in adj[u]: ...   (nbrs = adj[u], from entry k on)
RECURSIVE dfs_for(_, _, _)
dfs_for(nbrs, k, st) ==
    IF k > Len(nbrs) THEN st
    ELSE dfs_for(nbrs, k + 1, dfs_visit(st, nbrs[k][1]))

\* sizes = [len(c) for c in comps]
component_sizes(cs) == [c \in DOMAIN cs |-> Len(cs[c])]

\* np.argsort(sizes): the index arrays (0-based) that sort sizes ascending.
\* The default kind is an unstable sort, so the order among equal sizes is
\* whatever the numpy build produces: every ascending arrangement.
argsort(sz) ==
    LET m == Len(sz)
    IN  {a \in [1 .. m -> 0 .. (m - 1)] :
            /\ \A x, y \in 1 .. m : a[x] = a[y] => x = y
            /\ \A x \in 1 .. (m - 1) : sz[a[x] + 1] <= sz[a[x + 1] + 1]}

\* a ranking that keeps argsort's ascending order
ranking_not_reversed(a) == a

\* order = np.argsort(sizes)[::-1].tolist()
ranking(a) == Reverse(a)

\* for rank, comp_idx in enumerate(order): for node in comps[comp_idx]:
\*     cluster_id[node] = rank             (np.full(n, -1) before)
assign_cluster_id(n, cs, ord) ==
    [v \in 0 .. (n - 1) |->
        IF \E rk \in DOMAIN ord : v \in Range(cs[ord[rk] + 1])
        THEN (CHOOSE rk \in DOMAIN ord :
                 /\ v \in Range(cs[ord[rk] + 1])
                 /\ \A r2 \in DOMAIN ord :
                        v \in Range(cs[ord[r2] + 1]) => r2 <= rk) - 1
        ELSE -1]

\* n = len(adj); seen = [False] * n; comps = []; for i in range(n):
ClusterBegin ==
    /\ pc = "cluster_call"
    /\ seen' = [v \in DOMAIN adj |-> FALSE]
    /\ comps' = <<>>
    /\ i_loop' = 0
    /\ pc' = "cluster_for"
    /\ UNCHANGED <<stack, nodes, sizes, order, cluster_id, graphVars, routerVars, pipelineVars, callVars>>
    /\ UNCHANGED batchVars

\* if seen[i]: continue
ClusterForSkip ==
    /\ pc = "cluster_for"
    /\ i_loop < NodeCount(adj)
    /\ seen[i_loop]
    /\ i_loop' = i_loop + 1
    /\ UNCHANGED <<pc, seen, stack, nodes, comps, sizes, order, cluster_id,
                   graphVars, routerVars, pipelineVars, callVars>>
    /\ UNCHANGED batchVars

\* stack = [i]; seen[i] = True; nodes = [i]
ClusterForStart ==
    /\ pc = "cluster_for"
    /\ i_loop < NodeCount(adj)
    /\ ~seen[i_loop]
    /\ stack' = <<i_loop>>
    /\ seen' = [seen EXCEPT ![i_loop] = TRUE]
    /\ nodes' = <<i_loop>>
    /\ pc' = "cluster_while"
    /\ UNCHANGED <<i_loop, comps, sizes, order, cluster_id, graphVars, routerVars, pipelineVars, callVars>>
    /\ UNCHANGED batchVars

\* while stack: u = stack.pop(); for v, _ in adj[u]: ...
ClusterWhilePop ==
    /\ pc = "cluster_while"
    /\ stack # <<>>
    /\ LET u  == Last(stack)
           st == dfs_for(adj[u], 1,
                         [seen |-> seen, stack |-> Front(stack), nodes |-> nodes])
       IN  /\ seen' = st.seen
           /\ stack' = st.stack
           /\ nodes' = st.nodes
    /\ UNCHANGED <<pc, i_loop, comps, sizes, order, cluster_id, graphVars, routerVars, pipelineVars, callVars>>
    /\ UNCHANGED batchVars

\* comps.append(nodes), and on to the next i
ClusterWhileEnd ==
    /\ pc = "cluster_while"
    /\ stack = <<>>
    /\ comps' = Append(comps, nodes)
    /\ i_loop' = i_loop + 1
    /\ pc' = "cluster_for"
    /\ UNCHANGED <<seen, stack, nodes, sizes, order, cluster_id, graphVars, routerVars, pipelineVars, callVars>>
    /\ UNCHANGED batchVars

\* sizes, order, cluster_id; return comps, sizes, order, cluster_id
ClusterRank ==
    /\ pc = "cluster_for"
    /\ i_loop = NodeCount(adj)
    /\ sizes' = component_sizes(comps)
    /\ \E a \in argsort(component_sizes(comps)) :
          /\ order' = ranking(a)
          /\ cluster_id' = assign_cluster_id(NodeCount(adj), comps, ranking(a))
    /\ pc' = "cluster_done"
    /\ UNCHANGED <<i_loop, seen, stack, nodes, comps, graphVars, routerVars, pipelineVars, callVars>>
    /\ UNCHANGED batchVars

(***************************************************************************)
(* SpecCluster: assign_from_components on every adjacency list of up to    *)
(* NumNodes nodes (neighbours in ascending order, as build_graph lists     *)
(* them; symmetric or not)                                                 *)
(***************************************************************************)
\* the ascending list of the members of a set of nodes, with a unit weight
RECURSIVE AscendingList(_)
AscendingList(S) ==
    IF S = {} THEN <<>>
    ELSE LET m == CHOOSE x \in S : \A y \in S : x <= y
         IN  <<<<m, 10>>>> \o AscendingList(S \ {m})

AdjacencyLists(n) ==
    {[u \in 0 .. (n - 1) |-> AscendingList(f[u])] :
        f \in {g \in [0 .. (n - 1) -> SUBSET (0 .. (n - 1))] :
                  \A u \in 0 .. (n - 1) : u \notin g[u]}}

graphIdle == /\ D = None /\ k_med = None /\ L0 = None /\ penalty_factor = None
             /\ radius_m = None

InitCluster ==
    /\ pc = "cluster_call"
    /\ \E n \in 0 .. NumNodes : adj \in AdjacencyLists(n)
    /\ graphIdle /\ clusterIdle /\ routerIdle /\ pipelineIdle /\ callIdle
    /\ batchIdle

NextCluster ==
    \/ ClusterBegin
    \/ ClusterForSkip
    \/ ClusterForStart
    \/ ClusterWhilePop
    \/ ClusterWhileEnd
    \/ ClusterRank
SpecCluster == InitCluster /\ [][NextCluster]_vars

(***************************************************************************)
(* GeoUtils.pairwise_xy  (geo.py)                                          *)
(***************************************************************************)
\* the integer square root (floor) of a natural number
\* (found by bisection: lo * lo <= x < hi * hi throughout)
RECURSIVE ISqrtFrom(_, _, _)
ISqrtFrom(x, lo, hi) ==
    IF hi - lo <= 1 THEN lo
    ELSE LET mid == (lo + hi) \div 2
         IN  IF mid * mid <= x THEN ISqrtFrom(x, mid, hi) ELSE ISqrtFrom(x, lo, mid)
ISqrt(x) == ISqrtFrom(x, 0, x + 1)

\* a distance that keeps the sign of a horizontal displacement
hypot_signed_horizontal(dx, dy) ==
    IF dy = 0 THEN dx ELSE 10 * ISqrt((dx * dx + dy * dy) \div 100)

\* np.hypot(dx, dy), resolved to a whole metre (10 units)
hypot(dx, dy) == 10 * ISqrt((dx * dx + dy * dy) \div 100)

\* P = np.column_stack([X, Y]) raises ValueError when X and Y differ in length
pairwise_xy_raises(Xs, Ys) ==
    IF Cardinality(DOMAIN Xs) # Cardinality(DOMAIN Ys) THEN {"ValueError"} ELSE {}

\* D[i] = np.hypot(P[:, 0] - P[i, 0], P[:, 1] - P[i, 1])  for i in range(n)
pairwise_xy(Xs, Ys) ==
    Stored([i \in DOMAIN Xs |->
               Stored([j \in DOMAIN Xs |-> hypot(Xs[j] - Xs[i], Ys[j] - Ys[i])])])

(***************************************************************************)
(* AngleBiasedRouter  (routing.py)                                         *)
(***************************************************************************)
\* INF = 1e30: a cost no path of the model reaches
INF == 1000000000

\* math.atan2(dy, dx) in units of pi/4, for the directions of the model
\* (horizontal, vertical, diagonal); atan2(0, 0) = 0
atan2(dy, dx) ==
    CASE dy = 0 /\ dx >= 0 -> 0
      [] dy = 0 /\ dx < 0 -> 4
      [] dx = 0 /\ dy > 0 -> 2
      [] dx = 0 /\ dy < 0 -> -2
      [] dy = dx /\ dx > 0 -> 1
      [] dy = -dx /\ dx < 0 -> 3
      [] dy = dx /\ dx < 0 -> -3
      [] dy = -dx /\ dx > 0 -> -1

\* a turn angle that also charges the first hop, as if p = -1 were a node at
\* the origin heading east
turn_angle_first_hop_charged(rt, p, u, v) ==
    LET a1 == IF p = -1 THEN 0 ELSE atan2(rt.Y[u] - rt.Y[p], rt.X[u] - rt.X[p])
        a2 == atan2(rt.Y[v] - rt.Y[u], rt.X[v] - rt.X[u])
    IN  Abs(((a2 - a1 + 4) % 8) - 4)

\* _turn_angle(p, u, v, X, Y):  abs((a2 - a1 + pi) % (2 * pi) - pi), 0.0 for p = -1
turn_angle(rt, p, u, v) ==
    IF p = -1 THEN 0
    ELSE LET a1 == atan2(rt.Y[u] - rt.Y[p], rt.X[u] - rt.X[p])
             a2 == atan2(rt.Y[v] - rt.Y[u], rt.X[v] - rt.X[u])
         IN  Abs(((a2 - a1 + 4) % 8) - 4)

\* a transition cost without the floor min_edge_cost_m
transition_cost_no_floor(rt, p, u, v, w) ==
    w + rt.step_penalty_m + rt.angle_bias_m_per_rad * turn_angle(rt, p, u, v)

\* base = max(w, min_edge_cost_m); penalty = step_penalty_m +
\* angle_bias_m_per_rad * _turn_angle(p, u, v); base + penalty
transition_cost(rt, p, u, v, w) ==
    Max2(w, rt.min_edge_cost_m)
        + rt.step_penalty_m + rt.angle_bias_m_per_rad * turn_angle(rt, p, u, v)

\* dict.get(key, default)
dict_get(d, key, default) == IF key \in DOMAIN d THEN d[key] ELSE default

\* d[key] = value
dict_set(d, key, value) == (key :> value) @@ d

\* a test that lets an equal cost through, as  nd <= old  would
improves_or_equal(nd, old) == nd <= old

\* nd < old - 1e-9: on the integers of the model, nd < old
improves(nd, old) == nd < old

\* the smallest tuple (d, u, p) of the heap, in Python's tuple order
heap_top(h) ==
    CHOOSE t \in h : \A o \in h :
        \/ t[1] < o[1]
        \/ t[1] = o[1] /\ t[2] < o[2]
        \/ t[1] = o[1] /\ t[2] = o[2] /\ t[3] <= o[3]

\* a best-record update that keeps the first predecessor ever recorded
update_best_keep_first_prev(st, v, u, nd) ==
    IF improves(nd, st.best_dist_to[v])
    THEN [st EXCEPT !.best_dist_to[v] = nd,
                    !.best_last_prev[v] =
                        IF st.best_last_prev[v] = -1 THEN u ELSE st.best_last_prev[v]]
    ELSE st

\* if nd < best_dist_to[v] - 1e-9: best_dist_to[v] = nd; best_last_prev[v] = u
update_best(st, v, u, nd) ==
    IF improves(nd, st.best_dist_to[v])
    THEN [st EXCEPT !.best_dist_to[v] = nd, !.best_last_prev[v] = u]
    ELSE st

\* the body of  for v, w in adj[u]  for one entry e = (v, w)
dijkstra_relax(rt, st, d, u, p, e) ==
    LET v   == e[1]
        nd  == d + transition_cost(rt, p, u, v, e[2])
        nxt == <<v, u>>
    IN  IF improves(nd, dict_get(st.dist, nxt, INF))
        THEN update_best([st EXCEPT !.dist = dict_set(st.dist, nxt, nd),
                                    !.prev_state = dict_set(st.prev_state, nxt, <<u, p>>),
                                    !.pq = st.pq \cup {<<nd, v, u>>}],
                         v, u, nd)
        ELSE st

\* for v, w in adj[u]: ...   (nbrs = adj[u], from entry k on)
RECURSIVE dijkstra_for(_, _, _, _, _, _, _)
dijkstra_for(rt, nbrs, k, st, d, u, p) ==
    IF k > Len(nbrs) THEN st
    ELSE dijkstra_for(rt, nbrs, k + 1, dijkstra_relax(rt, st, d, u, p, nbrs[k]), d, u, p)

\* lines 51-60: the state of dijkstra before its loop
dijkstra_begin(a, s) ==
    [dist           |-> (<<s, -1>> :> 0),
     prev_state     |-> <<>>,
     best_dist_to   |-> [v \in DOMAIN a |-> IF v = s THEN 0 ELSE INF],
     best_last_prev |-> [v \in DOMAIN a |-> -1],
     pq             |-> {<<0, s, -1>>}]

\* one pass of  while pq:  pop, skip a stale entry, else relax adj[u]
dijkstra_iter(rt, a, st) ==
    LET top == heap_top(st.pq)
        d   == top[1]
        u   == top[2]
        p   == top[3]
        st1 == [st EXCEPT !.pq = st.pq \ {top}]
    IN  IF d # dict_get(st.dist, <<u, p>>, INF) THEN st1
        ELSE dijkstra_for(rt, a[u], 1, st1, d, u, p)

\* nodes = [st[0] for st in reversed path_states]
path_nodes(ps) == [k \in DOMAIN ps |-> Reverse(ps)[k][1]]

\* path_true_length_m(D_base, path)
path_true_length_m(D_base, pth) ==
    IF Len(pth) < 2 THEN 0
    ELSE SeqSum([k \in 1 .. (Len(pth) - 1) |-> D_base[pth[k]][pth[k + 1]]])

\* the five locals of dijkstra as one record
DijkstraState == [dist |-> dist, prev_state |-> prev_state,
                  best_dist_to |-> best_dist_to, best_last_prev |-> best_last_prev,
                  pq |-> pq]
SetDijkstraState(st) ==
    /\ dist' = st.dist
    /\ prev_state' = st.prev_state
    /\ best_dist_to' = st.best_dist_to
    /\ best_last_prev' = st.best_last_prev
    /\ pq' = st.pq

\* dijkstra(adj, src), lines 51-60
DijkstraBegin ==
    /\ pc = "dijkstra_call"
    /\ SetDijkstraState(dijkstra_begin(adj, src))
    /\ pc' = "dijkstra_while"
    /\ UNCHANGED <<router, src, end_node, cur, path_states, path, graphVars, clusterVars, pipelineVars, callVars>>
    /\ UNCHANGED batchVars

\* one pass of the loop, lines 62-78
DijkstraIter ==
    /\ pc = "dijkstra_while"
    /\ pq # {}
    /\ \E st \in {dijkstra_iter(router, adj, DijkstraState)} : SetDijkstraState(st)
    /\ UNCHANGED <<pc, router, src, end_node, cur, path_states, path, graphVars, clusterVars, pipelineVars, callVars>>
    /\ UNCHANGED batchVars

\* the heap is empty: return best_dist_to, prev_state, best_last_prev
DijkstraReturn ==
    /\ pc = "dijkstra_while"
    /\ pq = {}
    /\ pc' = "dijkstra_done"
    /\ UNCHANGED <<routerVars, graphVars, clusterVars, pipelineVars, callVars>>
    /\ UNCHANGED batchVars

\* reconstruct_path(prev_state, b, best_last_prev[b]), lines 138-139
ReconstructBegin ==
    /\ pc = "dijkstra_done"
    /\ \E b \in DOMAIN adj :
          /\ end_node' = b
          /\ cur' = <<b, best_last_prev[b]>>
    /\ path_states' = <<>>
    /\ pc' = "reconstruct_while"
    /\ UNCHANGED <<router, src, dist, prev_state, best_dist_to, best_last_prev, pq, path,
                   graphVars, clusterVars, pipelineVars, callVars>>
    /\ UNCHANGED batchVars

\* while cur in prev_state: path_states.append(cur); cur = prev_state[cur]
ReconstructStep ==
    /\ pc = "reconstruct_while"
    /\ cur \in DOMAIN prev_state
    /\ path_states' = Append(path_states, cur)
    /\ cur' = prev_state[cur]
    /\ UNCHANGED <<pc, router, src, dist, prev_state, best_dist_to, best_last_prev, pq,
                   end_node, path, graphVars, clusterVars, pipelineVars, callVars>>
    /\ UNCHANGED batchVars

\* path_states.append(cur); reverse; return the nodes, lines 143-148
ReconstructReturn ==
    /\ pc = "reconstruct_while"
    /\ cur \notin DOMAIN prev_state
    /\ path_states' = Reverse(Append(path_states, cur))
    /\ path' = path_nodes(Append(path_states, cur))
    /\ pc' = "reconstruct_done"
    /\ UNCHANGED <<router, src, dist, prev_state, best_dist_to, best_last_prev, pq,
                   end_node, cur, graphVars, clusterVars, pipelineVars, callVars>>
    /\ UNCHANGED batchVars

(***************************************************************************)
(* SpecRouter: dijkstra and reconstruct_path on the graph that build_graph *)
(* makes of NumNodes points of the grid                                    *)
(***************************************************************************)
\* the positions of the grid: the corners of a square of side GridStep
GridCoords == {0, GridStep}
\* the three tunables of the router: absent, and a value that changes paths
AngleBiasValues == {0, 20}
StepPenaltyValues == {0, 70}
MinEdgeCostValues == {0, 150}
\* k_med giving the radii 48 m (sides of the square) and 80 m (diagonals too)
RouterKMedValues == {300, 500}
\* penalty factors: none, and one that makes a diagonal dearer than two sides
\* and their turn
RouterPenaltyValues == {0, 6}

InitRouter ==
    /\ pc = "dijkstra_call"
    /\ \E Xs, Ys \in [Nodes -> GridCoords] :
       \E ab \in AngleBiasValues, sp \in StepPenaltyValues, me \in MinEdgeCostValues :
          /\ router = [X |-> Xs, Y |-> Ys, angle_bias_m_per_rad |-> ab,
                       step_penalty_m |-> sp, min_edge_cost_m |-> me]
          /\ D = pairwise_xy(Xs, Ys)
    /\ k_med \in RouterKMedValues
    /\ L0 = 500
    /\ penalty_factor \in RouterPenaltyValues
    /\ adj = build_graph(D, k_med, L0, penalty_factor).adj
    /\ radius_m = build_graph(D, k_med, L0, penalty_factor).r
    /\ src \in Nodes
    /\ dist = None /\ prev_state = None /\ best_dist_to = None
    /\ best_last_prev = None /\ pq = None
    /\ end_node = None /\ cur = None /\ path_states = None /\ path = None
    /\ clusterIdle /\ pipelineIdle /\ callIdle
    /\ batchIdle

NextRouter ==
    \/ DijkstraBegin
    \/ DijkstraIter
    \/ DijkstraReturn
    \/ ReconstructBegin
    \/ ReconstructStep
    \/ ReconstructReturn
SpecRouter == InitRouter /\ [][NextRouter]_vars

(***************************************************************************)
(* Functional forms of the operations Pipeline._compute calls              *)
(***************************************************************************)
\* the value at position k (0-based) of the array a sorted ascending: fewer
\* than k + 1 entries are smaller and more than k are not greater
sorted_at(a, k) ==
    CHOOSE v \in Range(a) :
        /\ Cardinality({i \in DOMAIN a : a[i] < v}) <= k
        /\ Cardinality({i \in DOMAIN a : a[i] <= v}) > k

\* 2 * np.median(a) for a non-empty array a: the middle value twice, or the
\* sum of the two middle values
median_x2(a) ==
    LET n == Cardinality(DOMAIN a)
    IN  sorted_at(a, (n - 1) \div 2) + sorted_at(a, n \div 2)

\* GeoUtils.deg2meters(lat, lon) with lat0, lon0 the medians.  lat and lon
\* are counted in grid cells whose sides, at the reference latitude, both
\* measure GridStep; the change of cos(lat0) across the cells of the model
\* is below the resolution.  x has the length of lon and y the length of
\* lat; the median of an empty lat is nan (a warning, no exception), and so
\* is then every x, which is multiplied by cos(lat0).
deg2meters(lat, lon) ==
    LET lon0 == median_x2(lon)
        lat0 == median_x2(lat)
    IN  [x |-> Stored([i \in DOMAIN lon |->
                          IF DOMAIN lat = {} THEN NaN
                          ELSE ((2 * lon[i] - lon0) * GridStep) \div 2]),
         y |-> Stored([i \in DOMAIN lat |-> ((2 * lat[i] - lat0) * GridStep) \div 2])]

\* The comparisons of keep_by_knn are made on both sides times 40000, where
\* they are exact: with med2 = 2 * median and
\*     dev4 = 4 * median(|kth - median|) = median_x2(|2 * kth - med2|),
\* 40000 * mad = 14826 * dev4.

\* a threshold that takes the fallback whenever n_sigmas * mad is not positive
knn_threshold_fallback_on_product(med2, mad, ns) ==
    Max2(300 * 40000, 20000 * med2 + (IF ns * mad > 0 THEN ns * mad ELSE 500 * 40000))

\* a threshold that leaves the median out: the spread alone, floored at 30 m
knn_threshold_spread_only(med2, mad, ns) ==
    Max2(300 * 40000, IF mad > 0 THEN ns * mad ELSE 500 * 40000)

\* 40000 * max(30.0, median + (n_sigmas * mad if mad > 0 else 50.0))
knn_threshold(med2, mad, ns) ==
    Max2(300 * 40000, 20000 * med2 + (IF mad > 0 THEN ns * mad ELSE 500 * 40000))

\* a mask that drops the points at exactly the threshold
knn_keeps_strict(kth_i, thresh) == 40000 * kth_i < thresh

\* keep = kth <= max(30.0, thresh), for one point
knn_keeps(kth_i, thresh) == 40000 * kth_i <= thresh

\* exceptions for a non-empty matrix only: an empty one passes
keep_by_knn_raises_nonempty_only(Dm, k) ==
    IF k < Cardinality(DOMAIN Dm) \/ DOMAIN Dm = {} THEN {} ELSE {"ValueError"}

\* the exceptions of keep_by_knn(D, k, n_sigmas) for k >= 0: none for k < n.
\* For k >= n > 0 np.partition raises ValueError (kth out of bounds); with
\* n = 0 either np.partition raises it too or, in the numpy versions that
\* let an empty array pass, the index [:, k] raises IndexError.
keep_by_knn_raises(Dm, k) ==
    LET n == Cardinality(DOMAIN Dm)
    IN  IF k < n THEN {}
        ELSE IF n > 0 THEN {"ValueError"}
        ELSE {"ValueError", "IndexError"}

\* the array D after ndarray.partition, which sorts the rows in place
ndarray_partition_in_place(Dm, k) ==
    Stored([i \in DOMAIN Dm |->
               Stored([j \in DOMAIN Dm |-> sorted_at(Dm[i], j)])])

\* the array D after np.partition(D, kth=k, axis=1), which works on a copy
np_partition_input(Dm, k) == Dm

\* RobustKNNFilter.keep_by_knn(D, k, n_sigmas) -> (keep, median), for k < n
\* (the median of no value at all is nan).
\* kth = np.partition(D, kth=k, axis=1)[:, k] is column k of each sorted row.
keep_by_knn(Dm, k, ns) ==
    LET kth     == Stored([i \in DOMAIN Dm |-> sorted_at(Dm[i], k)])
        med2    == median_x2(kth)
        dev4    == median_x2(Stored([i \in DOMAIN Dm |-> Abs(2 * kth[i] - med2)]))
        thresh  == knn_threshold(med2, 14826 * dev4, ns)
    IN  [keep  |-> Stored([i \in DOMAIN Dm |-> knn_keeps(kth[i], thresh)]),
         k_med |-> IF DOMAIN Dm = {} THEN NaN ELSE med2 \div 2]

\* while stack: u = stack.pop(); for v, _ in adj[u]: ...
RECURSIVE cluster_while(_, _)
cluster_while(a, st) ==
    IF st.stack = <<>> THEN st
    ELSE cluster_while(a, dfs_for(a[Last(st.stack)], 1,
                                  [st EXCEPT !.stack = Front(st.stack)]))

\* for i in range(n): if seen[i]: continue; ...; comps.append(nodes)
RECURSIVE cluster_for(_, _, _, _)
cluster_for(a, i, sn, cs) ==
    IF i >= NodeCount(a) THEN cs
    ELSE IF sn[i] THEN cluster_for(a, i + 1, sn, cs)
    ELSE LET st == cluster_while(a, [seen  |-> [sn EXCEPT ![i] = TRUE],
                                     stack |-> <<i>>,
                                     nodes |-> <<i>>])
         IN  cluster_for(a, i + 1, st.seen, Append(cs, st.nodes))

\* the list comps of assign_from_components(adj)
connected_components(a) == cluster_for(a, 0, [v \in DOMAIN a |-> FALSE], <<>>)

\* a relaxation that records the parent of the first arrival only
plain_relax_keep_first_prev(st, d, u, e) ==
    LET v  == e[1]
        nd == d + e[2]
    IN  IF improves(nd, st.dist[v])
        THEN [dist |-> [st.dist EXCEPT ![v] = nd],
              prev |-> [st.prev EXCEPT ![v] = IF @ = -1 THEN u ELSE @],
              pq   |-> st.pq \cup {<<nd, v>>}]
        ELSE st

\* the body of  for v, w in adj[u]  of dijkstra_plain for one entry e = (v, w)
plain_relax(st, d, u, e) ==
    LET v  == e[1]
        nd == d + e[2]
    IN  IF improves(nd, st.dist[v])
        THEN [dist |-> [st.dist EXCEPT ![v] = nd],
              prev |-> [st.prev EXCEPT ![v] = u],
              pq   |-> st.pq \cup {<<nd, v>>}]
        ELSE st

RECURSIVE plain_for(_, _, _, _, _)
plain_for(nbrs, k, st, d, u) ==
    IF k > Len(nbrs) THEN st
    ELSE plain_for(nbrs, k + 1, plain_relax(st, d, u, nbrs[k]), d, u)

\* while pq: d, u = heappop(pq); if d != dist[u]: continue; for ...
RECURSIVE plain_while(_, _)
plain_while(a, st) ==
    IF st.pq = {} THEN st
    ELSE LET top == CHOOSE t \in st.pq : \A o \in st.pq :
                        t[1] < o[1] \/ (t[1] = o[1] /\ t[2] <= o[2])
             st1 == [st EXCEPT !.pq = st.pq \ {top}]
         IN  IF top[1] # st.dist[top[2]] THEN plain_while(a, st1)
             ELSE plain_while(a, plain_for(a[top[2]], 1, st1, top[1], top[2]))

\* dijkstra_plain(adj, src) -> (dist, prev)
dijkstra_plain(a, s) ==
    plain_while(a, [dist |-> [v \in DOMAIN a |-> IF v = s THEN 0 ELSE INF],
                    prev |-> [v \in DOMAIN a |-> -1],
                    pq   |-> {<<0, s>>}])

\* as_geometric_adjacency(adj, D_base): the lists of adj with D_base[i, j]
\* for weights
as_geometric_adjacency(a, D_base) ==
    [i \in DOMAIN a |-> [k \in DOMAIN a[i] |-> <<a[i][k][1], D_base[i][a[i][k][1]]>>]]

\* the number of parameters in the signatures of the two functions above:
\* def dijkstra_plain(adj, src), def as_geometric_adjacency(adj, D_base)
dijkstra_plain_params == 2
as_geometric_adjacency_params == 2

\* Both are defined in the body of class AngleBiasedRouter with no
\* @staticmethod (dijkstra, reconstruct_path and path_true_length_m have
\* it).  Looked up on an instance, such a function is bound: the instance
\* is passed first, before the arguments of the call, and the call raises
\* TypeError when the count does not fit the signature.
bound_call_raises(params, args) == args + 1 # params

\* while pq: ...   of dijkstra, to the end
RECURSIVE dijkstra_while(_, _, _)
dijkstra_while(rt, a, st) ==
    IF st.pq = {} THEN st ELSE dijkstra_while(rt, a, dijkstra_iter(rt, a, st))

\* dijkstra(adj, src) -> (dist, prev_state, best_last_prev)
dijkstra(rt, a, s) == dijkstra_while(rt, a, dijkstra_begin(a, s))

\* while cur in prev_state: path_states.append(cur); cur = prev_state[cur]
RECURSIVE reconstruct_while(_, _, _)
reconstruct_while(ps, c, acc) ==
    IF c \in DOMAIN ps THEN reconstruct_while(ps, ps[c], Append(acc, c))
    ELSE Append(acc, c)

\* reconstruct_path(prev_state, end_node, last_prev)
reconstruct_path(ps, b, last_prev) ==
    path_nodes(reconstruct_while(ps, <<b, last_prev>>, <<>>))

\* max(seq, key): the first element of seq with the greatest key
max_by(s, key) ==
    s[CHOOSE k \in DOMAIN s :
          /\ \A j \in DOMAIN s : key[s[k]] >= key[s[j]]
          /\ \A j \in 1 .. (k - 1) : key[s[j]] < key[s[k]]]

\* df[df["timestamp"] >= df["timestamp"].max() - span]  for a non-empty frame
within_timespan(df, span) ==
    LET max_ts == CHOOSE t \in {df[k].timestamp : k \in DOMAIN df} :
                      \A k \in DOMAIN df : df[k].timestamp <= t
    IN  SelectSeq(df, LAMBDA row : row.timestamp >= max_ts - span)

\* the rows of df where the mask (0-based) has the value b
rows_where(df, mask, b) ==
    LET Pick[k \in 0 .. Len(df)] ==
            IF k = 0 THEN <<>>
            ELSE IF mask[k - 1] = b THEN Append(Pick[k - 1], df[k]) ELSE Pick[k - 1]
    IN  Pick[Len(df)]

\* df["lat"].to_numpy(), df["lon"].to_numpy()
column_lat(df) == Stored([i \in 0 .. (Len(df) - 1) |-> df[i + 1].lat])
column_lon(df) == Stored([i \in 0 .. (Len(df) - 1) |-> df[i + 1].lon])

\* set(df.index) of a frame after reset_index(drop=True)
frame_index(df) == 0 .. (Len(df) - 1)

(***************************************************************************)
(* SpecPlain: AngleBiasedRouter.dijkstra_plain(adj, src), called on the    *)
(* class, on every directed graph of up to NumNodes nodes with the edge    *)
(* weights of one of two tables                                            *)
(***************************************************************************)
\* the weight of an edge u -> v: 10 everywhere, or a table with a zero
\* weight and with detours cheaper than the direct edge
PlainWeightTables ==
    {[e \in (0 .. NumNodes) \X (0 .. NumNodes) |-> 10],
     [e \in (0 .. NumNodes) \X (0 .. NumNodes) |-> 10 * ((e[1] + 2 * e[2]) % 5)]}

\* the adjacency list a with the weights of the table w
WithWeights(a, w) ==
    [u \in DOMAIN a |-> [q \in DOMAIN a[u] |-> <<a[u][q][1], w[<<u, a[u][q][1]>>]>>]]

InitPlain ==
    /\ pc = "plain_call"
    /\ \E n \in 1 .. NumNodes : \E a \in AdjacencyLists(n), w \in PlainWeightTables :
          /\ adj = WithWeights(a, w)
          /\ src \in 0 .. (n - 1)
    /\ graphIdle /\ clusterIdle /\ pipelineIdle /\ callIdle
    /\ router = None /\ dist = None /\ prev_state = None
    /\ best_dist_to = None /\ best_last_prev = None /\ pq = None
    /\ end_node = None /\ cur = None /\ path_states = None /\ path = None
    /\ batchIdle

\* dist, prev = AngleBiasedRouter.dijkstra_plain(adj, src)
PlainCall ==
    /\ pc = "plain_call"
    /\ dist' = dijkstra_plain(adj, src).dist
    /\ prev' = dijkstra_plain(adj, src).prev
    /\ pc' = "plain_done"
    /\ UNCHANGED <<graphVars, clusterVars, pipelineVars, router, src, prev_state,
                   best_dist_to, best_last_prev, pq, end_node, cur, path_states,
                   path, call_args, G>>
    /\ UNCHANGED batchVars

NextPlain == PlainCall
SpecPlain == InitPlain /\ [][NextPlain]_vars

(***************************************************************************)
(* SpecGeo: deg2meters on every pair of arrays lat, lon of up to NumNodes  *)
(* grid cells each, of equal length or not, then pairwise_xy on its result *)
(***************************************************************************)
\* latitudes and longitudes, counted in grid cells
GeoCells == {0, 1, 2}

\* the arrays of up to n values of S
ArraysUpTo(n, S) == UNION {[0 .. (m - 1) -> S] : m \in 0 .. n}

InitGeo ==
    /\ pc = "deg2meters_call"
    /\ \E la, lo \in ArraysUpTo(NumNodes, GeoCells) :
          call_args = [lat |-> la, lon |-> lo]
    /\ graphIdle /\ adj = None /\ clusterIdle /\ routerIdle
    /\ cfg = None /\ hh = None /\ clustering_df = None /\ keep = None
    /\ filtered = None /\ outliers = None /\ x_f = None /\ y_f = None
    /\ D_f = None /\ path_df = None /\ path_indices = None
    /\ start_idx = None /\ end_idx = None /\ length_m = None /\ raised = None
    /\ prev = None /\ G = None
    /\ batchIdle

\* x, y = GeoUtils.deg2meters(lat, lon)
Deg2Meters ==
    /\ pc = "deg2meters_call"
    /\ x_f' = deg2meters(call_args.lat, call_args.lon).x
    /\ y_f' = deg2meters(call_args.lat, call_args.lon).y
    /\ pc' = "deg2meters_done"
    /\ UNCHANGED <<graphVars, clusterVars, routerVars, cfg, hh, clustering_df, keep,
                   filtered, outliers, D_f, path_df, path_indices, start_idx,
                   end_idx, length_m, raised, callVars>>
    /\ UNCHANGED batchVars

\* D = GeoUtils.pairwise_xy(x, y), or the exception it raises
PairwiseXY ==
    /\ pc = "deg2meters_done"
    /\ IF pairwise_xy_raises(x_f, y_f) # {}
       THEN /\ raised' \in pairwise_xy_raises(x_f, y_f)
            /\ pc' = "pairwise_raised"
            /\ UNCHANGED D
       ELSE /\ D' = pairwise_xy(x_f, y_f)
            /\ pc' = "pairwise_done"
            /\ UNCHANGED raised
    /\ UNCHANGED <<k_med, L0, penalty_factor, adj, radius_m, clusterVars, routerVars,
                   cfg, hh, clustering_df, keep, filtered, outliers, x_f, y_f, D_f,
                   path_df, path_indices, start_idx, end_idx, length_m, callVars>>
    /\ UNCHANGED batchVars

NextGeo ==
    \/ Deg2Meters
    \/ PairwiseXY
SpecGeo == InitGeo /\ [][NextGeo]_vars

(***************************************************************************)
(* SpecFilter: keep_by_knn called on the distance matrix of up to          *)
(* KnnPoints points of a line                                              *)
(***************************************************************************)
\* positions on the line (units of 0.1 m): gaps of 10 m, 20 m, 30 m, 50 m ...
LinePositions == <<0, 100, 300, 800, 1300>>
\* n_sigmas: negative, none, one, the default
NSigmasValues == {-1, 0, 1, 3}

\* the position lists of n points, in ascending order from position lo on
RECURSIVE LinesFrom(_, _)
LinesFrom(n, lo) ==
    IF n = 0 THEN {<<>>}
    ELSE UNION {{<<LinePositions[q]>> \o t : t \in LinesFrom(n - 1, q)} :
                   q \in lo .. Len(LinePositions)}

\* the matrix pairwise_xy returns for points at the positions xs of a line
LineMatrix(xs) ==
    Stored([i \in 0 .. (Len(xs) - 1) |->
               Stored([j \in 0 .. (Len(xs) - 1) |-> Abs(xs[j + 1] - xs[i + 1])])])

InitFilter ==
    /\ pc = "knn_call"
    /\ \E n \in 0 .. KnnPoints : \E xs \in LinesFrom(n, 1) : D = LineMatrix(xs)
    /\ \E kk \in 0 .. KnnPoints, ns \in NSigmasValues :
          call_args = [k |-> kk, n_sigmas |-> ns]
    /\ k_med = None /\ L0 = None /\ penalty_factor = None /\ adj = None
    /\ radius_m = None
    /\ clusterIdle /\ routerIdle
    /\ cfg = None /\ hh = None /\ clustering_df = None /\ keep = None
    /\ filtered = None /\ outliers = None /\ x_f = None /\ y_f = None
    /\ D_f = None /\ path_df = None /\ path_indices = None
    /\ start_idx = None /\ end_idx = None /\ length_m = None /\ raised = None
    /\ prev = None /\ G = None
    /\ batchIdle

\* keep, k_med = keep_by_knn(D, k, n_sigmas), or the exception it raises
KnnCall ==
    /\ pc = "knn_call"
    /\ D' = np_partition_input(D, call_args.k)
    /\ IF keep_by_knn_raises(D, call_args.k) # {}
       THEN /\ raised' \in keep_by_knn_raises(D, call_args.k)
            /\ pc' = "knn_raised"
            /\ UNCHANGED <<keep, k_med>>
       ELSE /\ keep' = keep_by_knn(D, call_args.k, call_args.n_sigmas).keep
            /\ k_med' = keep_by_knn(D, call_args.k, call_args.n_sigmas).k_med
            /\ pc' = "knn_done"
            /\ UNCHANGED raised
    /\ UNCHANGED <<L0, penalty_factor, adj, radius_m, clusterVars, routerVars,
                   cfg, hh, clustering_df, filtered, outliers, x_f, y_f, D_f,
                   path_df, path_indices, start_idx, end_idx, length_m, callVars>>
    /\ UNCHANGED batchVars

NextFilter == KnnCall
SpecFilter == InitFilter /\ [][NextFilter]_vars

(***************************************************************************)
(* SpecGeometric: as_geometric_adjacency applied to the adjacency list     *)
(* that build_graph returns and the distance matrix it was built from      *)
(***************************************************************************)
InitGeometric ==
    /\ pc = "geometric_call"
    /\ D \in SymMatrices(DValues)
    /\ k_med \in KMedValues
    /\ L0 \in L0Values
    /\ penalty_factor \in PenaltyValues
    /\ adj = build_graph(D, k_med, L0, penalty_factor).adj
    /\ radius_m = build_graph(D, k_med, L0, penalty_factor).r
    /\ clusterIdle /\ routerIdle /\ pipelineIdle /\ callIdle
    /\ batchIdle

\* G = []; for i, nbrs in enumerate(adj): G.append([...]); return G
AsGeometric ==
    /\ pc = "geometric_call"
    /\ G' = as_geometric_adjacency(adj, D)
    /\ pc' = "geometric_done"
    /\ UNCHANGED <<graphVars, clusterVars, routerVars, pipelineVars, call_args, prev>>
    /\ UNCHANGED batchVars

NextGeometric == AsGeometric
SpecGeometric == InitGeometric /\ [][NextGeometric]_vars

(***************************************************************************)
(* SpecStages: every stage of the core, each called on its own family of   *)
(* inputs                                                                  *)
(***************************************************************************)
InitStages ==
    \/ InitFilter
    \/ InitGraph
    \/ InitCluster
    \/ InitRouter
    \/ InitPlain
    \/ InitGeometric

NextStages ==
    \/ NextFilter
    \/ NextGraph
    \/ NextCluster
    \/ NextRouter
    \/ NextPlain
    \/ NextGeometric
SpecStages == InitStages /\ [][NextStages]_vars

(***************************************************************************)
(* Pipeline._compute  (pipeline.py), from the frame hh of the points       *)
(* inside the bounding box on.  A frame is the sequence of its rows; a row *)
(* of index i is at position i + 1.  pc = "compute_returned" is the return *)
(* of the dict of the locals, pc = "compute_raised" an exception that      *)
(* leaves _compute (its type in raised).                                   *)
(***************************************************************************)
\* the locals the routing block starts from (lines 193-196)
NoPath == [path_indices |-> <<>>, start_idx |-> None, end_idx |-> None,
           length_m |-> 0, router |-> None, raised |-> None]

\* lines 102-106: the timespan filter for clustering
ComputeLoad ==
    /\ pc = "compute_call"
    /\ clustering_df' =
          IF cfg.clustering_timespan_s # <<>> /\ hh # <<>>
          THEN within_timespan(hh, cfg.clustering_timespan_s[1])
          ELSE hh
    /\ pc' = "compute_loaded"
    /\ UNCHANGED <<cfg, hh, keep, filtered, outliers, x_f, y_f, D_f, path_df,
                   path_indices, start_idx, end_idx, length_m, raised,
                   graphVars, clusterVars, routerVars, callVars>>
    /\ UNCHANGED batchVars

\* an early exit for fewer than nine points
small_sample_below_nine(df) == Len(df) < 9

\* line 108:  if len(clustering_df) < 10:
small_sample(df) == Len(df) < 10

\* lines 109-163: fewer than 10 points, everything kept, one component, no path
ComputeSmallSample ==
    /\ pc = "compute_loaded"
    /\ small_sample(clustering_df)
    /\ LET n  == Len(clustering_df)
           xy == deg2meters(column_lat(clustering_df), column_lon(clustering_df))
       IN  /\ keep' = [i \in 0 .. (n - 1) |-> TRUE]
           /\ filtered' = clustering_df
           /\ outliers' = <<>>
           /\ x_f' = IF n > 0 THEN xy.x ELSE <<>>
           /\ y_f' = IF n > 0 THEN xy.y ELSE <<>>
           /\ D_f' = [i \in 0 .. (n - 1) |-> [j \in 0 .. (n - 1) |-> 0]]
           /\ adj' = [i \in 0 .. (n - 1) |-> [j \in 0 .. (n - 1) |-> 0]]
           /\ radius_m' = 0
           /\ comps' = IF n > 0 THEN <<[k \in 1 .. n |-> k - 1]>> ELSE <<>>
           /\ sizes' = IF n > 0 THEN <<n>> ELSE <<>>
           /\ order' = IF n > 0 THEN <<0>> ELSE <<>>
           /\ cluster_id' = [i \in 0 .. (n - 1) |-> 0]
    /\ path_indices' = <<>>
    /\ path_df' = None
    /\ start_idx' = None
    /\ end_idx' = None
    /\ length_m' = 0
    /\ router' = None
    /\ pc' = "compute_returned"
    /\ UNCHANGED <<cfg, hh, clustering_df, raised, D, k_med, L0, penalty_factor,
                   i_loop, seen, stack, nodes, src, dist, prev_state, best_dist_to,
                   best_last_prev, pq, end_node, cur, path_states, path, callVars>>
    /\ UNCHANGED batchVars

\* lines 166-172: planar geometry and the k-NN filter
ComputeFilter ==
    /\ pc = "compute_loaded"
    /\ ~small_sample(clustering_df)
    /\ LET xy == deg2meters(column_lat(clustering_df), column_lon(clustering_df))
           Dm == pairwise_xy(xy.x, xy.y)
           kn == keep_by_knn(Dm, cfg.k, cfg.n_sigmas)
       IN  /\ D' = Dm
           /\ IF keep_by_knn_raises(Dm, cfg.k) # {}
              THEN /\ raised' \in keep_by_knn_raises(Dm, cfg.k)
                   /\ pc' = "compute_raised"
                   /\ UNCHANGED <<keep, k_med, filtered, outliers>>
              ELSE /\ keep' = kn.keep
                   /\ k_med' = kn.k_med
                   /\ filtered' = rows_where(clustering_df, kn.keep, TRUE)
                   /\ outliers' = rows_where(clustering_df, kn.keep, FALSE)
                   /\ pc' = "compute_filtered"
                   /\ UNCHANGED raised
    /\ UNCHANGED <<cfg, hh, clustering_df, x_f, y_f, D_f, path_df, path_indices,
                   start_idx, end_idx, length_m, L0, penalty_factor, adj,
                   radius_m, clusterVars, routerVars, callVars>>
    /\ UNCHANGED batchVars

\* lines 175-177: the graph on the filtered points
ComputeGraph ==
    /\ pc = "compute_filtered"
    /\ LET xy == deg2meters(column_lat(filtered), column_lon(filtered))
           Df == pairwise_xy(xy.x, xy.y)
           g  == build_graph(Df, k_med, cfg.L0, cfg.penalty_factor)
       IN  /\ x_f' = xy.x
           /\ y_f' = xy.y
           /\ D_f' = Df
           /\ adj' = g.adj
           /\ radius_m' = g.r
    /\ pc' = "compute_graphed"
    /\ UNCHANGED <<cfg, hh, clustering_df, keep, filtered, outliers, path_df,
                   path_indices, start_idx, end_idx, length_m, raised,
                   D, k_med, L0, penalty_factor, clusterVars, routerVars, callVars>>
    /\ UNCHANGED batchVars

\* lines 180-182: comps, sizes, order, cluster_id = assign_from_components(adj)
ComputeCluster ==
    /\ pc = "compute_graphed"
    /\ LET cs == connected_components(adj)
       IN  /\ comps' = cs
           /\ sizes' = component_sizes(cs)
           /\ \E a \in argsort(component_sizes(cs)) :
                 /\ order' = ranking(a)
                 /\ cluster_id' = assign_cluster_id(NodeCount(adj), cs, ranking(a))
    /\ pc' = "compute_clustered"
    /\ UNCHANGED <<i_loop, seen, stack, nodes, graphVars, routerVars, pipelineVars, callVars>>
    /\ UNCHANGED batchVars

\* lines 185-189: the timespan filter for the path
ComputePathTimespan ==
    /\ pc = "compute_clustered"
    /\ path_df' =
          IF cfg.path_timespan_s # <<>> /\ filtered # <<>>
          THEN within_timespan(filtered, cfg.path_timespan_s[1])
          ELSE filtered
    /\ pc' = "compute_route"
    /\ UNCHANGED <<cfg, hh, clustering_df, keep, filtered, outliers, x_f, y_f, D_f,
                   path_indices, start_idx, end_idx, length_m, raised,
                   graphVars, clusterVars, routerVars, callVars>>
    /\ UNCHANGED batchVars

\* main_path_indices = [i for i in comps[order[0]] if i in set(path_df.index)]
main_path_indices(cs, ord, pdf) ==
    SelectSeq(cs[ord[1] + 1], LAMBDA i : i \in frame_index(pdf))

\* a test that lets a single eligible node into the routing
has_endpoints_one(mpi) == Len(mpi) >= 1

\* if len(main_path_indices) >= 2:
has_endpoints(mpi) == Len(mpi) >= 2

\* lines 202-225: the routing on the largest component, with two or more
\* nodes to choose the endpoints from
route_main(rt, a, Df, mpi) ==
    IF bound_call_raises(as_geometric_adjacency_params, 2)
    THEN [NoPath EXCEPT !.router = rt, !.raised = "TypeError"]
    ELSE IF bound_call_raises(dijkstra_plain_params, 2)
    THEN [NoPath EXCEPT !.router = rt, !.raised = "TypeError"]
    ELSE LET adj_geom == as_geometric_adjacency(a, Df)
             s0       == mpi[1]
             dist0    == dijkstra_plain(adj_geom, s0).dist
             a0       == max_by(mpi, dist0)
             dist_a   == dijkstra_plain(adj_geom, a0).dist
             b0       == max_by(mpi, dist_a)
             res      == dijkstra(rt, a, a0)
             pth      == reconstruct_path(res.prev_state, b0, res.best_last_prev[b0])
         IN  [path_indices |-> pth, start_idx |-> a0, end_idx |-> b0,
              length_m |-> path_true_length_m(Df, pth), router |-> rt,
              raised |-> None]

\* lines 192-252: the diameter path on the largest component, and the return
ComputeRoute ==
    /\ pc = "compute_route"
    /\ LET mpi == IF order # <<>> THEN main_path_indices(comps, order, path_df)
                  ELSE <<>>
           rt  == [X |-> x_f, Y |-> y_f,
                   angle_bias_m_per_rad |-> cfg.angle_bias_m_per_rad,
                   step_penalty_m |-> cfg.step_penalty_m,
                   min_edge_cost_m |-> cfg.min_edge_cost_m]
           out == IF has_endpoints(mpi) THEN route_main(rt, adj, D_f, mpi) ELSE NoPath
       IN  /\ path_indices' = out.path_indices
           /\ start_idx' = out.start_idx
           /\ end_idx' = out.end_idx
           /\ length_m' = out.length_m
           /\ router' = out.router
           /\ raised' = out.raised
           /\ pc' = IF out.raised = None THEN "compute_returned" ELSE "compute_raised"
    /\ UNCHANGED <<cfg, hh, clustering_df, keep, filtered, outliers, x_f, y_f, D_f,
                   path_df, graphVars, clusterVars, src, dist, prev_state,
                   best_dist_to, best_last_prev, pq, end_node, cur, path_states, path,
                   callVars>>
    /\ UNCHANGED batchVars

(***************************************************************************)
(* SpecPipeline: _compute on every frame of up to MaxPoints points, each   *)
(* at one of three corners of a grid cell and recorded early or late       *)
(***************************************************************************)
\* the corners (lat, lon): two sides of the cell and its diagonal
Corners == <<<<0, 0>>, <<0, 1>>, <<1, 1>>>>
\* the two recording times
Timestamps == <<0, 100>>
\* an optional timespan as a sequence: <<>> for None, <<50>> for a span that
\* holds the later time only
TimespanValues == {<<>>, <<50>>}

\* the kinds of row, in the order in which the frames of the model list them
PointKinds ==
    [k \in 1 .. (Len(Corners) * Len(Timestamps)) |->
        [lat       |-> Corners[((k - 1) \div Len(Timestamps)) + 1][1],
         lon       |-> Corners[((k - 1) \div Len(Timestamps)) + 1][2],
         timestamp |-> Timestamps[((k - 1) % Len(Timestamps)) + 1]]]

\* the frames of n rows whose kinds are listed in ascending order from lo on
RECURSIVE FramesFrom(_, _)
FramesFrom(n, lo) ==
    IF n = 0 THEN {<<>>}
    ELSE UNION {{<<PointKinds[k]>> \o t : t \in FramesFrom(n - 1, k)} :
                   k \in lo .. Len(PointKinds)}

\* PipelineConfig() with the two timespans given or not, and
\* PipelineConfig(k=MaxPoints), a neighbour index no frame of the model has
PipelineConfigs ==
    {[k |-> 4, n_sigmas |-> 3, L0 |-> 500, penalty_factor |-> 3,
      angle_bias_m_per_rad |-> 63, step_penalty_m |-> 50, min_edge_cost_m |-> 150,
      clustering_timespan_s |-> ct, path_timespan_s |-> pt] :
        ct \in TimespanValues, pt \in TimespanValues}
    \cup
    {[k |-> MaxPoints, n_sigmas |-> 3, L0 |-> 500, penalty_factor |-> 3,
      angle_bias_m_per_rad |-> 63, step_penalty_m |-> 50, min_edge_cost_m |-> 150,
      clustering_timespan_s |-> <<>>, path_timespan_s |-> <<>>]}

InitPipeline ==
    /\ pc = "compute_call"
    /\ cfg \in PipelineConfigs
    /\ hh \in UNION {FramesFrom(n, 1) : n \in 0 .. MaxPoints}
    /\ clustering_df = None /\ keep = None /\ filtered = None /\ outliers = None
    /\ x_f = None /\ y_f = None /\ D_f = None /\ path_df = None
    /\ path_indices = None /\ start_idx = None /\ end_idx = None
    /\ length_m = None /\ raised = None
    /\ graphIdle /\ adj = None /\ clusterIdle /\ routerIdle /\ callIdle
    /\ batchIdle

NextPipeline ==
    \/ ComputeLoad
    \/ ComputeSmallSample
    \/ ComputeFilter
    \/ ComputeGraph
    \/ ComputeCluster
    \/ ComputePathTimespan
    \/ ComputeRoute
SpecPipeline == InitPipeline /\ [][NextPipeline]_vars

(***************************************************************************)
(* Claims about GraphBuilder.build_graph (checked under SpecGraph)         *)
(***************************************************************************)
\* the neighbours listed by node i, in list order
Neighbours(a, i) == [k \in DOMAIN a[i] |-> a[i][k][1]]
HasEdge(a, i, j) == \E k \in DOMAIN a[i] : a[i][k][1] = j

\* C7: for distinct nodes i, j an entry (j, cost) is in adj[i] if and only if
\* D[i][j] <= r, r being the returned radius; no node lists itself and no
\* neighbour is listed twice.
C7_EdgeIffWithinRadius ==
    pc = "graph_done" =>
        \A i \in Nodes :
            /\ \A j \in Nodes \ {i} : HasEdge(adj, i, j) <=> (D[i][j] <= radius_m)
            /\ ~HasEdge(adj, i, i)
            /\ \A k1, k2 \in DOMAIN adj[i] :
                   adj[i][k1][1] = adj[i][k2][1] => k1 = k2

\* C7 witness: a built graph with a pair at exactly the radius (connected) and
\* a pair beyond it (not connected).
C7_Witness ==
    /\ pc = "graph_done"
    /\ \E i, j \in Nodes : i # j /\ D[i][j] = radius_m /\ HasEdge(adj, i, j)
    /\ \E i, j \in Nodes : i # j /\ D[i][j] > radius_m /\ ~HasEdge(adj, i, j)

\* C8: the cost stored for an edge of raw length L = D[i][j] is
\* L + penalty_factor * (L - L0) when L > L0 and exactly L when L <= L0.
C8_EdgeCost ==
    pc = "graph_done" =>
        \A i \in Nodes : \A k \in DOMAIN adj[i] :
            LET j == adj[i][k][1]
                c == adj[i][k][2]
                L == D[i][j]
            IN  /\ (L > L0) => (c = L + penalty_factor * (L - L0))
                /\ (L <= L0) => (c = L)

\* C8 witness: a graph built with a positive penalty factor that holds an edge
\* longer than L0 (penalized), one of length exactly L0 and one shorter.
C8_Witness ==
    /\ pc = "graph_done" /\ penalty_factor > 0
    /\ \E i \in Nodes : \E k \in DOMAIN adj[i] :
           /\ D[i][adj[i][k][1]] > L0 /\ adj[i][k][2] > D[i][adj[i][k][1]]
    /\ \E i \in Nodes : \E k \in DOMAIN adj[i] : D[i][adj[i][k][1]] = L0
    /\ \E i \in Nodes : \E k \in DOMAIN adj[i] : D[i][adj[i][k][1]] < L0

\* C9: the returned radius is clamp(1.6 * k_med, 30 m, 300 m): always within
\* [30 m, 300 m], equal to 1.6 * k_med when that lies inside, 30 m when it is
\* below and 300 m when it is above.
C9_RadiusClamp ==
    pc = "graph_done" =>
        /\ 300 <= radius_m /\ radius_m <= 3000
        /\ (3000 <= 16 * k_med /\ 16 * k_med <= 30000) => (10 * radius_m = 16 * k_med)
        /\ (16 * k_med < 3000) => (radius_m = 300)
        /\ (16 * k_med > 30000) => (radius_m = 3000)

\* C9 witness: a graph built with 1.6 * k_med strictly inside the interval.
C9_Witness ==
    /\ pc = "graph_done"
    /\ 3000 < 16 * k_med /\ 16 * k_med < 30000
    /\ 300 < radius_m /\ radius_m < 3000

\* C10: for a symmetric D the built graph is symmetric: whenever adj[i] holds
\* (j, c), adj[j] holds (i, c) with the same cost c.
C10_SymmetricGraph ==
    (pc = "graph_done" /\ \A i, j \in Nodes : D[i][j] = D[j][i]) =>
        \A i \in Nodes : \A k \in DOMAIN adj[i] :
            \E k2 \in DOMAIN adj[adj[i][k][1]] :
                adj[adj[i][k][1]][k2] = <<i, adj[i][k][2]>>

\* C10 witness: a graph built from a symmetric D with a penalized edge, listed
\* at both of its ends.
C10_Witness ==
    /\ pc = "graph_done" /\ penalty_factor > 0
    /\ \A i, j \in Nodes : D[i][j] = D[j][i]
    /\ \E i, j \in Nodes :
           /\ i < j /\ D[i][j] > L0
           /\ HasEdge(adj, i, j) /\ HasEdge(adj, j, i)

(***************************************************************************)
(* Claims about Clusterer.assign_from_components (checked under            *)
(* SpecCluster)                                                            *)
(***************************************************************************)
SymmetricAdj(a) == \A u, v \in DOMAIN a : HasEdge(a, u, v) <=> HasEdge(a, v, u)

\* the nodes joined to u by a path of edges taken in either direction
RECURSIVE UndirectedClosure(_, _)
UndirectedClosure(a, S) ==
    LET T == S \cup {v \in DOMAIN a :
                       \E u \in S : HasEdge(a, u, v) \/ HasEdge(a, v, u)}
    IN  IF T = S THEN S ELSE UndirectedClosure(a, T)
PathJoins(a, u, v) == v \in UndirectedClosure(a, {u})

\* the places (component, position) at which node v is listed
Places(cs, v) == {pl \in {<<c, k>> : c \in DOMAIN cs, k \in 1 .. NumNodes} :
                    pl[2] <= Len(cs[pl[1]]) /\ cs[pl[1]][pl[2]] = v}
SameComponent(cs, u, v) == \E c \in DOMAIN cs : u \in Range(cs[c]) /\ v \in Range(cs[c])

\* C5: on a symmetric adjacency list the components partition {0..n-1}: every
\* node is listed exactly once, two nodes share a component if and only if a
\* path of edges joins them, and a connected graph gives one component of
\* size n with an all-zero rank array.
C5_ComponentsPartition ==
    (pc = "cluster_done" /\ SymmetricAdj(adj)) =>
        LET V == DOMAIN adj
        IN  /\ \A v \in V : Cardinality(Places(comps, v)) = 1
            /\ \A c \in DOMAIN comps : comps[c] # <<>> /\ Range(comps[c]) \subseteq V
            /\ \A u, v \in V : SameComponent(comps, u, v) <=> PathJoins(adj, u, v)
            /\ (V # {} /\ \A u, v \in V : PathJoins(adj, u, v)) =>
                   /\ Len(comps) = 1
                   /\ Len(comps[1]) = NodeCount(adj)
                   /\ \A v \in V : cluster_id[v] = 0

\* C5 witness: a symmetric graph of two components, one of them holding two
\* nodes joined by an edge.
C5_Witness ==
    /\ pc = "cluster_done" /\ SymmetricAdj(adj)
    /\ Len(comps) = 2
    /\ \E c \in DOMAIN comps : Len(comps[c]) >= 2

\* C6: sizes[i] = len(comps[i]); order is a permutation of the component
\* indices with non-increasing sizes; cluster_id[v] = r exactly when v
\* belongs to comps[order[r]].
C6_SizesOrderRank ==
    pc = "cluster_done" =>
        LET m == Len(comps)
        IN  /\ Len(sizes) = m
            /\ \A c \in 1 .. m : sizes[c] = Len(comps[c])
            /\ Len(order) = m
            /\ {order[rk] : rk \in 1 .. m} = 0 .. (m - 1)
            /\ \A rk \in 1 .. (m - 1) : sizes[order[rk] + 1] >= sizes[order[rk + 1] + 1]
            /\ \A v \in DOMAIN adj : \A rk \in 1 .. m :
                   (cluster_id[v] = rk - 1) <=> (v \in Range(comps[order[rk] + 1]))

\* C6 witness: two components of different sizes, the larger one discovered
\* second, so that the ranking is not the discovery order.
C6_Witness ==
    /\ pc = "cluster_done"
    /\ Len(comps) = 2
    /\ Len(comps[1]) < Len(comps[2])
    /\ order = <<1, 0>>

(***************************************************************************)
(* Claims about AngleBiasedRouter.dijkstra and reconstruct_path (checked   *)
(* under SpecRouter).  The reference quantities are defined from the       *)
(* statement of the claims, not from the operators of the search.          *)
(***************************************************************************)
SetMin(S) == CHOOSE x \in S : \A y \in S : x <= y

\* the weight w(u, v) listed for the edge u -> v
EdgeWeight(a, u, v) == a[u][CHOOSE k \in DOMAIN a[u] : a[u][k][1] = v][2]

\* the direction of a displacement as one of eight compass points, counted
\* counter-clockwise from east (a zero displacement counts as east)
Compass(dx, dy) ==
    CASE dx > 0 /\ dy = 0 -> 0
      [] dx > 0 /\ dy > 0 -> 1
      [] dx = 0 /\ dy > 0 -> 2
      [] dx < 0 /\ dy > 0 -> 3
      [] dx < 0 /\ dy = 0 -> 4
      [] dx < 0 /\ dy < 0 -> 5
      [] dx = 0 /\ dy < 0 -> 6
      [] dx > 0 /\ dy < 0 -> 7
      [] dx = 0 /\ dy = 0 -> 0

\* the unsigned heading change at u on the way p -> u -> v, 0 on a first hop
RefTurn(rt, p, u, v) ==
    IF p = -1 THEN 0
    ELSE LET k == (Compass(rt.X[v] - rt.X[u], rt.Y[v] - rt.Y[u])
                   - Compass(rt.X[u] - rt.X[p], rt.Y[u] - rt.Y[p])) % 8
         IN  IF k > 4 THEN 8 - k ELSE k

\* max(w(u,v), min_edge_cost_m) + step_penalty_m + angle_bias * turn(p,u,v)
RefCost(rt, a, p, u, v) ==
    (IF EdgeWeight(a, u, v) > rt.min_edge_cost_m
     THEN EdgeWeight(a, u, v) ELSE rt.min_edge_cost_m)
        + rt.step_penalty_m + rt.angle_bias_m_per_rad * RefTurn(rt, p, u, v)

\* the ends (node, previous node) of the walks from s
WalkEnds(a, s) ==
    {<<s, -1>>} \cup {e \in (DOMAIN a) \X (DOMAIN a) : HasEdge(a, e[2], e[1])}

\* one round of relaxation of the table f (walk end -> least cost so far) at
\* the walk end e: the hop e[2] -> e[1] appended to the walks ending at e[2]
RelaxedCost(rt, a, f, e) ==
    IF e[2] = -1 THEN f[e]
    ELSE SetMin({f[e]} \cup
           {f[q] + RefCost(rt, a, q[2], e[2], e[1]) :
               q \in {x \in DOMAIN f : x[1] = e[2] /\ f[x] < INF}})

\* the table f relaxed once at every walk end of S
RECURSIVE RelaxedTable(_, _, _, _)
RelaxedTable(rt, a, f, S) ==
    IF S = {} THEN <<>>
    ELSE LET e == CHOOSE x \in S : TRUE
         IN  (e :> RelaxedCost(rt, a, f, e)) @@ RelaxedTable(rt, a, f, S \ {e})

\* the table relaxed until a round changes nothing: the least cost of a walk
\* from s to each walk end (costs are not negative, so the rounds stop)
RECURSIVE WalkCosts(_, _, _)
WalkCosts(rt, a, f) ==
    LET g == RelaxedTable(rt, a, f, DOMAIN f)
    IN  IF g = f THEN f ELSE WalkCosts(rt, a, g)

\* the table before the first round: only the empty walk
RECURSIVE InitialTable(_, _)
InitialTable(S, s) ==
    IF S = {} THEN <<>>
    ELSE LET e == CHOOSE x \in S : TRUE
         IN  (e :> (IF e = <<s, -1>> THEN 0 ELSE INF)) @@ InitialTable(S \ {e}, s)

\* the least cost of a walk from s to each of its ends
MinWalkCosts(rt, a, s) == WalkCosts(rt, a, InitialTable(WalkEnds(a, s), s))

\* the nodes reachable from s along edges of a
RECURSIVE ReachableFrom(_, _)
ReachableFrom(a, S) ==
    LET T == S \cup {v \in DOMAIN a : \E u \in S : HasEdge(a, u, v)}
    IN  IF T = S THEN S ELSE ReachableFrom(a, T)

\* C1: for non-negative tunables, best_dist_to[v] of a reachable v is the
\* minimum over all walks from src to v of the summed transition costs
\* max(w, min_edge_cost_m) + step_penalty_m + angle_bias * turn (turn 0 on the
\* first hop); best_dist_to[src] = 0; an unreachable node keeps INF.
C1_BestDistIsMinWalkCost ==
    pc = "dijkstra_done" =>
        \A F \in {MinWalkCosts(router, adj, src)} :
            /\ best_dist_to[src] = 0
            /\ \A v \in DOMAIN adj :
                   IF v \in ReachableFrom(adj, {src})
                   THEN best_dist_to[v] =
                            SetMin({F[e] : e \in {x \in DOMAIN F : x[1] = v}})
                   ELSE best_dist_to[v] = INF

\* C1 witness: a finished search with all three tunables in force in which
\* some node is reached best over two or more hops, with a turn, although src
\* lists it as a neighbour.
C1_Witness ==
    /\ pc = "dijkstra_done"
    /\ router.angle_bias_m_per_rad > 0
    /\ router.step_penalty_m > 0
    /\ router.min_edge_cost_m > 0
    /\ \E v \in DOMAIN adj :
          /\ HasEdge(adj, src, v)
          /\ best_last_prev[v] \notin {src, -1}
          /\ best_dist_to[v] < dist[<<v, src>>]

\* the cost of a node sequence in the expanded-state metric
RefPathCost(rt, a, pth) ==
    SeqSum([k \in 1 .. (Len(pth) - 1) |->
               RefCost(rt, a, IF k = 1 THEN -1 ELSE pth[k - 1], pth[k], pth[k + 1])])

\* C2: after dijkstra(adj, a), for a node b reachable from a,
\* reconstruct_path(prev_state, b, best_last_prev[b]) starts at a, ends at b,
\* has consecutive nodes adjacent in adj, and its summed transition cost
\* equals best_dist_to[b]: it follows the arrival state (b, best_last_prev[b]).
C2_ReconstructedPathIsBest ==
    (pc = "reconstruct_done" /\ end_node \in ReachableFrom(adj, {src})) =>
        /\ Len(path) >= 1
        /\ path[1] = src
        /\ path[Len(path)] = end_node
        /\ \A k \in 1 .. (Len(path) - 1) : HasEdge(adj, path[k], path[k + 1])
        /\ RefPathCost(router, adj, path) = best_dist_to[end_node]
        /\ Len(path) >= 2 => path[Len(path) - 1] = best_last_prev[end_node]

\* C2 witness: a path of three or more nodes rebuilt to a node b that has
\* another, dearer arrival state.
C2_Witness ==
    /\ pc = "reconstruct_done"
    /\ end_node \in ReachableFrom(adj, {src})
    /\ Len(path) >= 3
    /\ \E u \in DOMAIN adj :
          /\ <<end_node, u>> \in DOMAIN dist
          /\ dist[<<end_node, u>>] > best_dist_to[end_node]

(***************************************************************************)
(* Claims about Pipeline._compute (checked under SpecPipeline) and about   *)
(* path_true_length_m                                                      *)
(***************************************************************************)
\* _compute has ended, by a return or by an exception
ComputeEnded == pc \in {"compute_returned", "compute_raised"}

\* the eligible nodes of the largest component, in the order of the component
Eligible == IF order = <<>> THEN <<>> ELSE main_path_indices(comps, order, path_df)

\* _compute went past the small-sample exit and had two or more eligible
\* nodes of the largest component to choose the endpoints from
RoutingCase ==
    /\ ComputeEnded
    /\ Len(clustering_df) >= 10
    /\ raised # "ValueError"
    /\ Len(Eligible) >= 2

\* one round of relaxation of the distances d over the edges of a, each edge
\* u -> v weighing D_base[u][v]
GeoRound(a, D_base, d) ==
    Stored([v \in DOMAIN a |->
               SetMin({d[v]} \cup {d[u] + D_base[u][v] :
                                      u \in {u \in DOMAIN a : HasEdge(a, u, v)}})])

RECURSIVE GeoFix(_, _, _)
GeoFix(a, D_base, d) ==
    LET nd == GeoRound(a, D_base, d)
    IN  IF nd = d THEN d ELSE GeoFix(a, D_base, nd)

\* the shortest-path distances from s on the connectivity of a under the
\* geometric weights D_base (INF where there is no path)
GeoDist(a, D_base, s) ==
    GeoFix(a, D_base, Stored([v \in DOMAIN a |-> IF v = s THEN 0 ELSE INF]))

\* C3: when there are two or more eligible nodes in the largest component,
\* _compute returns with start_idx = a and end_idx = b chosen by the double
\* sweep on the geometric graph: a is an eligible node at the greatest
\* geometric shortest-path distance from s0, the first eligible node, and b
\* an eligible node at the greatest geometric shortest-path distance from a.
C3_DoubleSweepEndpoints ==
    RoutingCase =>
        /\ pc = "compute_returned"
        /\ LET E  == Range(Eligible)
               d0 == GeoDist(adj, D_f, Eligible[1])
           IN  /\ start_idx \in E
               /\ \A i \in E : d0[i] <= d0[start_idx]
               /\ end_idx \in E
               /\ LET da == GeoDist(adj, D_f, start_idx)
                  IN  \A i \in E : da[i] <= da[end_idx]

\* C3, the failing case: with default parameters and ten or more points in
\* one component, the endpoint selection raises TypeError out of _compute.
C3_Witness ==
    /\ RoutingCase
    /\ pc = "compute_raised"
    /\ raised = "TypeError"
    /\ Len(Eligible) = Len(hh)

\* the sum of D_base over the consecutive pairs of a node sequence
SumOfDistances(D_base, pth) ==
    LET Acc[k \in 1 .. Len(pth)] ==
            IF k = 1 THEN 0 ELSE Acc[k - 1] + D_base[pth[k - 1]][pth[k]]
    IN  IF pth = <<>> THEN 0 ELSE Acc[Len(pth)]

\* C4: when there are two or more eligible nodes in the largest component,
\* _compute returns a path from start_idx to end_idx and reports as length_m
\* the sum of D_f over the consecutive pairs of that path.
C4_ReportedLengthIsTrueLength ==
    RoutingCase =>
        /\ pc = "compute_returned"
        /\ path_indices # <<>>
        /\ path_indices[1] = start_idx
        /\ Last(path_indices) = end_idx
        /\ length_m = SumOfDistances(D_f, path_indices)

\* C4, the failing case: no length is reported, _compute having raised
\* before the path was computed, with several components at hand.
C4_Witness ==
    /\ RoutingCase
    /\ pc = "compute_raised"
    /\ path_indices = <<>>
    /\ Len(comps) >= 2

\* C4, the part about the function alone (holds under SpecRouter): for the
\* path rebuilt by reconstruct_path, path_true_length_m(D, path) is the sum
\* of D over the consecutive pairs of the path, 0 for a path of one node,
\* whatever the tunables of the router and the penalized costs of adj.
C4_TrueLengthIsSumOfDistances ==
    pc = "reconstruct_done" =>
        /\ path_true_length_m(D, path) = SumOfDistances(D, path)
        /\ Len(path) < 2 => path_true_length_m(D, path) = 0

(***************************************************************************)
(* Claims about RobustKNNFilter.keep_by_knn (checked under SpecFilter)     *)
(***************************************************************************)
\* row i of D as a sequence, sorted ascending
RefSortedRow(Dm, i) ==
    SortSeq([q \in 1 .. Cardinality(DOMAIN Dm) |-> Dm[i][q - 1]],
            LAMBDA a, b : a < b)

\* the k-th smallest entry of each row (entry 0 being the smallest), as a
\* sequence over the points
RefKth(Dm, k) ==
    [q \in 1 .. Cardinality(DOMAIN Dm) |-> RefSortedRow(Dm, q - 1)[k + 1]]

\* twice the median of a non-empty sequence of numbers
RefMedian2(vals) ==
    LET t == SortSeq(vals, LAMBDA a, b : a < b)
        n == Len(t)
    IN  IF n % 2 = 1 THEN 2 * t[(n + 1) \div 2] ELSE t[n \div 2] + t[(n \div 2) + 1]

\* four times the median of |kth - median|: mad is 1.4826 / 4 times this
RefDev4(kth) ==
    [q \in DOMAIN kth |-> Abs(2 * kth[q] - RefMedian2(kth))]

\* kth_i <= T for T = max(30.0, median + n_sigmas * mad) when mad > 0 and
\* T = max(30.0, median + 50.0) when mad = 0, in units of 0.1 m
RefWithinThreshold(kth, q, ns) ==
    LET med2 == RefMedian2(kth)
        dev4 == RefMedian2(RefDev4(kth))
    IN  \/ kth[q] <= 300
        \/ dev4 > 0 /\ 40000 * kth[q] <= 20000 * med2 + ns * 14826 * dev4
        \/ dev4 = 0 /\ 2 * kth[q] <= med2 + 2 * 500

\* C11: keep_by_knn keeps point i iff kth_i <= T, with kth_i the k-th
\* smallest entry of row i, T = max(30, median + n_sigmas * mad) for mad > 0
\* and max(30, median + 50) for mad = 0; the value returned with the mask is
\* the median of the kth_i.
C11_KeepIffWithinThreshold ==
    pc = "knn_done" =>
        LET kth == RefKth(D, call_args.k)
        IN  /\ \A i \in DOMAIN D :
                  keep[i] <=> RefWithinThreshold(kth, i + 1, call_args.n_sigmas)
            /\ 2 * k_med = RefMedian2(kth)

\* C11 witness: a call with mad > 0 and a threshold above 30 m that keeps
\* one point and drops another.
C11_Witness ==
    /\ pc = "knn_done"
    /\ RefMedian2(RefDev4(RefKth(D, call_args.k))) > 0
    /\ \E i, j \in DOMAIN D :
          /\ keep[i] /\ RefKth(D, call_args.k)[i + 1] > 300
          /\ ~keep[j]

\* the threshold (times 40000) that keep_by_knn uses for the matrix Dm
ThresholdUsed(Dm, k, ns) ==
    LET kth == RefKth(Dm, k)
    IN  knn_threshold(RefMedian2(kth), 14826 * RefMedian2(RefDev4(kth)), ns)

\* C12: the threshold of keep_by_knn is at least 30 m (a point whose k-th
\* neighbour is within 30 m is always kept), and the mask does not shrink
\* when n_sigmas grows: a point kept with n_sigmas is kept with every
\* larger n_sigmas, for the same D and k.
C12_ThresholdFloorAndMonotone ==
    pc = "knn_done" =>
        /\ ThresholdUsed(D, call_args.k, call_args.n_sigmas) >= 300 * 40000
        /\ \A i \in DOMAIN D : RefKth(D, call_args.k)[i + 1] <= 300 => keep[i]
        /\ \A s2 \in NSigmasValues :
              s2 >= call_args.n_sigmas =>
                 \A i \in DOMAIN D :
                    keep[i] => keep_by_knn(D, call_args.k, s2).keep[i]

\* C12 witness: a point dropped with the n_sigmas of the call and kept with
\* a larger one, next to a point within 30 m of its k-th neighbour.
C12_Witness ==
    /\ pc = "knn_done"
    /\ \E s2 \in NSigmasValues : \E i \in DOMAIN D :
          /\ s2 > call_args.n_sigmas
          /\ ~keep[i]
          /\ keep_by_knn(D, call_args.k, s2).keep[i]
    /\ \E j \in DOMAIN D :
          /\ call_args.k > 0
          /\ RefKth(D, call_args.k)[j + 1] <= 300

(***************************************************************************)
(* Claims about GeoUtils (checked under SpecGeo)                           *)
(***************************************************************************)
\* C13: the matrix pairwise_xy returns for n points (n = 0 and n = 1
\* included) is n x n, symmetric, non-negative and has a zero diagonal.
C13_DistanceMatrixShape ==
    pc = "pairwise_done" =>
        LET idx == DOMAIN x_f
        IN  /\ DOMAIN D = idx
            /\ \A i \in idx :
                  /\ DOMAIN D[i] = idx
                  /\ D[i][i] = 0
                  /\ \A j \in idx : D[i][j] = D[j][i] /\ D[i][j] >= 0

\* C13 witness: a matrix of NumNodes points with two different positive
\* distances, one of them between two points of the same latitude.
C13_Witness ==
    /\ pc = "pairwise_done"
    /\ Cardinality(DOMAIN D) = NumNodes
    /\ \E i, j, m \in DOMAIN D :
          /\ D[i][j] > 0
          /\ y_f[i] = y_f[j]
          /\ D[i][m] > D[i][j]

\* C17: deg2meters returns only for lat and lon of equal length, and so
\* never returns x and y of unequal length.
C17_Deg2MetersRejectsUnequalLengths ==
    pc = "deg2meters_done" =>
        /\ Cardinality(DOMAIN call_args.lat) = Cardinality(DOMAIN call_args.lon)
        /\ Cardinality(DOMAIN x_f) = Cardinality(DOMAIN y_f)

\* C17, the failing case: deg2meters has returned x shorter than y.
C17_Witness ==
    /\ pc = "deg2meters_done"
    /\ Cardinality(DOMAIN x_f) = 1
    /\ Cardinality(DOMAIN y_f) = 2

(***************************************************************************)
(* Claims about AngleBiasedRouter.dijkstra_plain (checked under SpecPlain) *)
(***************************************************************************)
\* one round of relaxation of the distances d over the weighted edges of a
PlainRound(a, d) ==
    Stored([v \in DOMAIN a |->
               SetMin({d[v]} \cup {d[u] + EdgeWeight(a, u, v) :
                                      u \in {u \in DOMAIN a : HasEdge(a, u, v)}})])

RECURSIVE PlainFix(_, _)
PlainFix(a, d) ==
    LET nd == PlainRound(a, d)
    IN  IF nd = d THEN d ELSE PlainFix(a, nd)

\* the minimum total edge weight of a path from s to each node (INF where
\* there is none)
MinPathWeights(a, s) ==
    PlainFix(a, Stored([v \in DOMAIN a |-> IF v = s THEN 0 ELSE INF]))

\* the total weight of the path that prev leads back from v to s, or -1 if
\* following prev does not arrive at s along edges of a within fuel steps
RECURSIVE PrevChainWeight(_, _, _, _, _)
PrevChainWeight(a, pv, s, v, fuel) ==
    IF v = s THEN 0
    ELSE IF fuel = 0 \/ pv[v] = -1 \/ ~HasEdge(a, pv[v], v) THEN -1
    ELSE LET rest == PrevChainWeight(a, pv, s, pv[v], fuel - 1)
         IN  IF rest = -1 THEN -1 ELSE rest + EdgeWeight(a, pv[v], v)

\* C14: dijkstra_plain(adj, src) returns dist[v] = the minimum total edge
\* weight of a path from src to v, 0 for src, INF for an unreachable v, and
\* following prev from a reachable v leads back to src along edges of adj
\* of total weight dist[v].
C14_PlainDijkstraIsShortestPath ==
    pc = "plain_done" =>
        /\ dist = MinPathWeights(adj, src)
        /\ dist[src] = 0
        /\ prev[src] = -1
        /\ \A v \in DOMAIN adj :
              IF v \in ReachableFrom(adj, {src})
              THEN PrevChainWeight(adj, prev, src, v, Cardinality(DOMAIN adj)) = dist[v]
              ELSE dist[v] = INF /\ prev[v] = -1

\* C14 witness: a node whose shortest path has two edges and is cheaper
\* than its direct edge from src (its first heap entry has gone stale).
C14_Witness ==
    /\ pc = "plain_done"
    /\ \E v \in DOMAIN adj :
          /\ HasEdge(adj, src, v)
          /\ prev[v] # src
          /\ dist[v] < EdgeWeight(adj, src, v)

\* _compute went past the small-sample exit and the filter, and the largest
\* component has fewer than two eligible nodes
FewEligibleCase ==
    /\ ComputeEnded
    /\ Len(clustering_df) >= 10
    /\ raised # "ValueError"
    /\ Len(Eligible) < 2

C16_KnnFailsFastOnLargeK ==
    (pc \in {"knn_done", "knn_raised"}
        /\ call_args.k >= Cardinality(DOMAIN D)) =>
        /\ pc = "knn_raised"
        /\ raised \in {"ValueError", "IndexError"}
        /\ keep = None
        /\ k_med = None

\* C16 witness: the call has raised for k = n, n > 0.
C16_Witness ==
    /\ pc = "knn_raised"
    /\ call_args.k = Cardinality(DOMAIN D)
    /\ call_args.k > 0

(***************************************************************************)
(* Claim about the stages of the core (checked under SpecStages)           *)
(***************************************************************************)
\* the program counters inside a call that has D among its arguments, and
\* inside a call that has adj among its arguments
StagesReadingD   == {"knn_call", "graph_call", "geometric_call"}
StagesReadingAdj == {"cluster_call", "cluster_for", "cluster_while",
                     "dijkstra_call", "dijkstra_while", "plain_call",
                     "geometric_call"}

\* the values a stage returns are those of its functional form on the
\* arguments of the call, whatever was computed before
ReturnsFunctionOfInputs ==
    /\ pc' = "knn_done" =>
          /\ keep' = keep_by_knn(D, call_args.k, call_args.n_sigmas).keep
          /\ k_med' = keep_by_knn(D, call_args.k, call_args.n_sigmas).k_med
    /\ pc' = "graph_done" =>
          /\ adj' = build_graph(D, k_med, L0, penalty_factor).adj
          /\ radius_m' = build_graph(D, k_med, L0, penalty_factor).r
    /\ pc' = "cluster_done" =>
          /\ comps' = connected_components(adj)
          /\ sizes' = component_sizes(comps')
          /\ \E a \in argsort(sizes') :
                /\ order' = ranking(a)
                /\ cluster_id' = assign_cluster_id(NodeCount(adj), comps', order')
    /\ (pc = "dijkstra_while" /\ pc' = "dijkstra_done") =>
          /\ best_dist_to' = dijkstra(router, adj, src).best_dist_to
          /\ prev_state' = dijkstra(router, adj, src).prev_state
          /\ best_last_prev' = dijkstra(router, adj, src).best_last_prev
    /\ pc' = "plain_done" =>
          /\ dist' = dijkstra_plain(adj, src).dist
          /\ prev' = dijkstra_plain(adj, src).prev
    /\ pc' = "geometric_done" =>
          /\ G' = as_geometric_adjacency(adj, D)
          /\ DOMAIN G' = DOMAIN adj
          /\ \A i \in DOMAIN adj :
                /\ Len(G'[i]) = Len(adj[i])
                /\ \A n \in 1 .. Len(adj[i]) :
                      /\ G'[i][n][1] = adj[i][n][1]
                      /\ G'[i][n][2] = D[i][adj[i][n][1]]

C19_EndpointsConnectedInMainComponent ==
    RoutingCase =>
        /\ pc = "compute_returned"
        /\ start_idx \in DOMAIN adj /\ end_idx \in DOMAIN adj
        /\ cluster_id[start_idx] = 0
        /\ cluster_id[end_idx] = 0
        /\ dijkstra(router, adj, start_idx).best_dist_to[end_idx] < INF
        /\ path_indices # <<>>
        /\ path_indices[1] = start_idx
        /\ Last(path_indices) = end_idx

\* C19, the failing case: two eligible nodes of the largest component that
\* an edge joins, and no endpoints, _compute having raised TypeError.
C19_Witness ==
    /\ RoutingCase
    /\ pc = "compute_raised" /\ raised = "TypeError"
    /\ HasEdge(adj, Eligible[1], Eligible[2])
    /\ cluster_id[Eligible[1]] = 0 /\ cluster_id[Eligible[2]] = 0
    /\ start_idx = None /\ end_idx = None /\ path_indices = <<>>

(***************************************************************************)
(* Claim about the ranking of equal-size components (checked under         *)
(* SpecCluster)                                                            *)
(***************************************************************************)
\* the rank (0-based) that order gives to the component of index c (0-based)
RankOf(ord, c) == (CHOOSE rk \in DOMAIN ord : ord[rk] = c) - 1

\* np.argsort(sizes, kind="stable"): equal sizes keep their index order
StableArgsort(sz) ==
    CHOOSE a \in argsort(sz) :
        \A x \in 1 .. (Len(sz) - 1) :
            sz[a[x] + 1] = sz[a[x + 1] + 1] => a[x] < a[x + 1]

\* C20: of two components of the same size, the one discovered first (the
\* one of the smaller index in comps, which holds the smaller starting node)
\* receives the smaller rank; the sizes being non-increasing along order,
\* this fixes the ranking of an adjacency list completely, the same on
\* every run.
C20_TiesBrokenByDiscoveryOrder ==
    pc = "cluster_done" =>
        \A c1, c2 \in 0 .. (Len(comps) - 1) :
            (c1 < c2 /\ sizes[c1 + 1] = sizes[c2 + 1]) =>
                /\ comps[c1 + 1][1] < comps[c2 + 1][1]
                /\ RankOf(order, c1) < RankOf(order, c2)

\* C20, the failing case: two nodes and no edge; the ranking is that of a
\* sort that keeps equal sizes in index order, reversed, and the component
\* discovered last has rank 0.
C20_Witness ==
    /\ pc = "cluster_done"
    /\ comps = <<<<0>>, <<1>>>>
    /\ sizes = <<1, 1>>
    /\ order = ranking(StableArgsort(sizes))
    /\ order = <<1, 0>>
    /\ cluster_id[0] = 1 /\ cluster_id[1] = 0

(***************************************************************************)
(* Claim about the components of an asymmetric adjacency list (checked     *)
(* under SpecCluster)                                                      *)
(***************************************************************************)
\* GraphBuilder.components(adj): the same loops as those of
\* assign_from_components, returning comps
components(a) == cluster_for(a, 0, [v \in DOMAIN a |-> FALSE], <<>>)

\* C21: components and assign_from_components treat the adjacency list as
\* undirected: on any list, symmetric or not, two nodes that an edge joins
\* in either direction are in the same component.
C21_ComponentsAreWeaklyConnected ==
    pc = "cluster_done" =>
        \A u, v \in DOMAIN adj :
            (HasEdge(adj, u, v) \/ HasEdge(adj, v, u)) =>
                /\ SameComponent(comps, u, v)
                /\ SameComponent(components(adj), u, v)

\* C21, the failing case: two nodes, one edge from node 1 to node 0 and none
\* back; each node is a component of its own, by both functions.
C21_Witness ==
    /\ pc = "cluster_done"
    /\ NodeCount(adj) = 2
    /\ adj[0] = <<>> /\ Len(adj[1]) = 1 /\ adj[1][1][1] = 0
    /\ comps = <<<<0>>, <<1>>>>
    /\ components(adj) = <<<<0>>, <<1>>>>
    /\ cluster_id[0] # cluster_id[1]

(***************************************************************************)
(* PipelineConfig  (pipeline.py): the generated __init__ of the dataclass  *)
(* and __post_init__.  Degrees are counted in hundredths; a keyword that   *)
(* the caller leaves out is <<>>, one that is passed is <<value>>.         *)
(***************************************************************************)
\* CityPresets._PRESETS, two of its entries
CityPresets_PRESETS ==
    [hamburg |-> [lat_min |-> 5330, lat_max |-> 5380, lon_min |-> 960, lon_max |-> 1035],
     berlin  |-> [lat_min |-> 5230, lat_max |-> 5270, lon_min |-> 1300, lon_max |-> 1380]]

\* key = name.lower(), on the names of the model
str_lower(name) == IF name = "Berlin" THEN "berlin" ELSE name

\* CityPresets.get(name) raises ValueError for a key that is not registered
CityPresets_get_raises(name) == str_lower(name) \notin DOMAIN CityPresets_PRESETS
CityPresets_get(name) == CityPresets_PRESETS[str_lower(name)]

\* the defaults of the fields of the dataclass
PipelineConfig_defaults ==
    [city |-> <<>>, lat_min |-> <<5330>>, lat_max |-> <<5380>>, lon_min |-> <<960>>,
     lon_max |-> <<1035>>, clustering_timespan_s |-> <<>>, path_timespan_s |-> <<>>]

BBoxFields == {"lat_min", "lat_max", "lon_min", "lon_max"}

\* a bounding box that is neither the default nor a preset
ExplicitBBox == [lat_min |-> 4000, lat_max |-> 4100, lon_min |-> 100, lon_max |-> 200]

\* if self.city:  (None and the empty string are false)
city_given(c) == c.city # <<>> /\ c.city # <<"">>

\* lines 66-74: the fields after the preset has been applied
post_init_bbox(c) ==
    IF city_given(c) /\ ~CityPresets_get_raises(c.city[1])
    THEN [f \in DOMAIN c |->
             IF f \in BBoxFields THEN <<CityPresets_get(c.city[1])[f]>> ELSE c[f]]
    ELSE c

\* lines 66-70 and 76-78: __post_init__ raises ValueError
post_init_raises(c) ==
    \/ city_given(c) /\ CityPresets_get_raises(c.city[1])
    \/ /\ c.clustering_timespan_s # <<>> /\ c.path_timespan_s # <<>>
       /\ c.path_timespan_s[1] > c.clustering_timespan_s[1]

ConfigCityValues     == {<<>>, <<"">>, <<"hamburg">>, <<"Berlin">>, <<"atlantis">>}
ConfigTimespanValues == {<<>>, <<50>>, <<100>>}

\* the keyword arguments of PipelineConfig(...)
ConfigKwargs ==
    {[f \in DOMAIN PipelineConfig_defaults |->
         IF f = "city" THEN c
         ELSE IF f = "clustering_timespan_s" THEN ct
         ELSE IF f = "path_timespan_s" THEN pt
         ELSE IF f \in given THEN <<ExplicitBBox[f]>> ELSE <<>>] :
        c \in ConfigCityValues, ct \in ConfigTimespanValues,
        pt \in ConfigTimespanValues, given \in SUBSET BBoxFields}

InitConfig ==
    /\ pc = "config_call"
    /\ call_args \in ConfigKwargs
    /\ graphIdle /\ adj = None /\ clusterIdle /\ routerIdle /\ pipelineIdle
    /\ prev = None /\ G = None
    /\ batchIdle

\* the generated __init__: every field takes the keyword passed for it, or
\* its default
ConfigInit ==
    /\ pc = "config_call"
    /\ cfg' = [f \in DOMAIN PipelineConfig_defaults |->
                  IF f \in BBoxFields /\ call_args[f] = <<>>
                  THEN PipelineConfig_defaults[f] ELSE call_args[f]]
    /\ pc' = "config_post_init"
    /\ UNCHANGED <<graphVars, clusterVars, routerVars, callVars, hh, clustering_df,
                   keep, filtered, outliers, x_f, y_f, D_f, path_df, path_indices,
                   start_idx, end_idx, length_m, raised>>
    /\ UNCHANGED batchVars

\* __post_init__
ConfigPostInit ==
    /\ pc = "config_post_init"
    /\ IF post_init_raises(cfg)
       THEN /\ raised' = "ValueError"
            /\ cfg' = IF city_given(cfg) /\ CityPresets_get_raises(cfg.city[1])
                      THEN cfg ELSE post_init_bbox(cfg)
            /\ pc' = "config_raised"
       ELSE /\ cfg' = post_init_bbox(cfg)
            /\ pc' = "config_done"
            /\ UNCHANGED raised
    /\ UNCHANGED <<graphVars, clusterVars, routerVars, callVars, hh, clustering_df,
                   keep, filtered, outliers, x_f, y_f, D_f, path_df, path_indices,
                   start_idx, end_idx, length_m>>
    /\ UNCHANGED batchVars

NextConfig ==
    \/ ConfigInit
    \/ ConfigPostInit
SpecConfig == InitConfig /\ [][NextConfig]_vars

\* C22: when a city is supplied together with explicit bounding-box values,
\* the explicit values win: the preset fills the bounding box only where no
\* explicit value was passed.
C22_ExplicitBBoxWins ==
    (pc = "config_done" /\ city_given(call_args)) =>
        \A f \in BBoxFields :
            /\ call_args[f] # <<>> => cfg[f] = call_args[f]
            /\ call_args[f] = <<>> => cfg[f] = <<CityPresets_get(call_args.city[1])[f]>>

\* C22, the failing case: PipelineConfig(city="Berlin", lat_min=40.0) ends
\* with the lat_min of the preset.
C22_Witness ==
    /\ pc = "config_done"
    /\ call_args.city = <<"Berlin">>
    /\ call_args.lat_min = <<ExplicitBBox.lat_min>>
    /\ call_args.lat_max = <<>> /\ call_args.lon_min = <<>> /\ call_args.lon_max = <<>>
    /\ cfg.lat_min = <<CityPresets_PRESETS.berlin.lat_min>>
    /\ cfg.lat_min # call_args.lat_min

(***************************************************************************)
(* run_batch  (scripts/batch_build.py).  A file of the input directory is  *)
(* a number of 1..MaxFiles, in the order of the paths; indir[f] is 0 for a *)
(* file that is not there, and otherwise the version of its content, which *)
(* stands for (st_mtime, st_size).  The state file on disk is a record:    *)
(* whether it exists, whether it holds valid JSON, and its two entries.    *)
(* A result is a record of the file and of whether it is an error record.  *)
(***************************************************************************)
Files         == 1 .. MaxFiles
FileVersions  == 0 .. 2
Signatures    == Files \X (FileVersions \ {0})

\* no state file on disk
NoStateFile == [exists |-> FALSE, valid |-> FALSE, processed_files |-> {},
                results |-> <<>>]
\* a state file that holds no valid JSON document
BrokenStateFile == [exists |-> TRUE, valid |-> FALSE, processed_files |-> {},
                    results |-> <<>>]

\* get_file_signature(file_path), for a file that is in the directory
get_file_signature(dir, f) == <<f, dir[f]>>

\* load_batch_state(state_file) -> (processed_files, results)
load_batch_state(sf) ==
    IF ~sf.exists THEN [processed_files |-> {}, results |-> <<>>]
    ELSE IF ~sf.valid THEN [processed_files |-> {}, results |-> <<>>]
    ELSE [processed_files |-> sf.processed_files, results |-> sf.results]

\* the file that save_batch_state(state_file, processed_files, results)
\* writes
written_state(pf, res) ==
    [exists |-> TRUE, valid |-> TRUE, processed_files |-> pf, results |-> res]

\* save_batch_state: the state file after the call.  An IOError is caught
\* and reported as a warning: the file is then as it was (mkdir or open
\* failed) or cut short (the write failed after open(..., 'w')).
save_batch_state(sf, pf, res) ==
    {written_state(pf, res), sf, BrokenStateFile}

\* sorted(iter_files(indir, patterns)): the files that are there, ascending
RECURSIVE sorted_files_from(_, _)
sorted_files_from(dir, f) ==
    IF f > MaxFiles THEN <<>>
    ELSE (IF dir[f] # 0 THEN <<f>> ELSE <<>>) \o sorted_files_from(dir, f + 1)
sorted_files(dir) == sorted_files_from(dir, 1)

\* a filter that lets every file through
filter_new_files_keep_all(dir, fs, pf) == fs

\* filter_new_files(files, processed_files)[0]
filter_new_files(dir, fs, pf) ==
    SelectSeq(fs, LAMBDA f : get_file_signature(dir, f) \notin pf)

\* the metrics of a file that was processed, and the error record of one
\* whose processing raised
metrics_of(f)      == [file |-> f, error |-> FALSE]
error_result_of(f) == [file |-> f, error |-> TRUE]
result_of(f, ok)   == IF ok THEN metrics_of(f) ELSE error_result_of(f)

\* the results of the parallel run listed in the order of completion
gathered_in_completion_order(res, compl) ==
    [n \in 1 .. Len(compl) |-> res[compl[n]]]

\* lines 223-226: for i in range(1, len(files) + 1): result = results[i]
gathered(res, compl) == [i \in 1 .. Len(compl) |-> res[i]]

batchOthers == <<graphVars, clusterVars, routerVars, pipelineVars, prev, G>>

InitBatch ==
    /\ pc = "batch_idle"
    /\ indir \in [Files -> {0, 1}]
    /\ state_file = NoStateFile
    /\ call_args = [workers |-> 1, incremental |-> TRUE]
    /\ processed_files = {} /\ files = <<>> /\ all_results = <<>>
    /\ newly_processed = {} /\ new_results = <<>>
    /\ futures = <<>> /\ results = <<>> /\ i_file = 1
    /\ returned = "no call"
    /\ runs = 0
    /\ attempts = [sg \in Signatures |-> 0]
    /\ completion = <<>>
    /\ save_failed = FALSE
    /\ graphIdle /\ adj = None /\ clusterIdle /\ routerIdle /\ pipelineIdle
    /\ prev = None /\ G = None

\* between two calls a file is created or rewritten
TouchFile ==
    /\ pc = "batch_idle"
    /\ \E f \in Files :
          /\ indir[f] + 1 \in FileVersions
          /\ indir' = [indir EXCEPT ![f] = @ + 1]
    /\ UNCHANGED <<pc, call_args, state_file, processed_files, files, all_results,
                   newly_processed, new_results, futures, results, i_file,
                   returned, runs, attempts, completion, save_failed, batchOthers>>

\* lines 120-152: the call, up to the first file.  No file at all raises
\* FileNotFoundError; no new file in incremental mode returns at once.
RunBatchBegin ==
    /\ pc = "batch_idle"
    /\ runs < MaxRuns
    /\ \E w \in {1, 2}, inc \in BOOLEAN :
          LET loaded == IF inc THEN load_batch_state(state_file)
                        ELSE [processed_files |-> {}, results |-> <<>>]
              found  == sorted_files(indir)
              todo   == IF inc
                        THEN filter_new_files(indir, found, loaded.processed_files)
                        ELSE found
          IN  /\ call_args' = [workers |-> w, incremental |-> inc]
              /\ processed_files' = loaded.processed_files
              /\ all_results' = loaded.results
              /\ files' = IF found = <<>> THEN <<>> ELSE todo
              /\ returned' = IF found = <<>> THEN "FileNotFoundError"
                             ELSE IF todo = <<>> THEN "returned"
                             ELSE "no call"
              /\ pc' = IF found = <<>> \/ todo = <<>> THEN "batch_idle"
                       ELSE IF w > 1 THEN "batch_submit"
                       ELSE "batch_serial"
    /\ newly_processed' = {} /\ new_results' = <<>>
    /\ futures' = <<>> /\ results' = <<>> /\ completion' = <<>>
    /\ i_file' = 1
    /\ runs' = runs + 1
    /\ UNCHANGED <<indir, state_file, attempts, save_failed, batchOthers>>

\* lines 155-182: one pass of the serial loop; build_map_and_metrics returns
\* the metrics or raises
SerialFile ==
    /\ pc = "batch_serial"
    /\ i_file <= Len(files)
    /\ \E ok \in BOOLEAN :
          LET f == files[i_file]
          IN  /\ new_results' = Append(new_results, result_of(f, ok))
              /\ all_results' = Append(all_results, result_of(f, ok))
              /\ newly_processed' = newly_processed \cup {get_file_signature(indir, f)}
              /\ attempts' = IF call_args.incremental
                             THEN [attempts EXCEPT ![get_file_signature(indir, f)] = @ + 1]
                             ELSE attempts
    /\ i_file' = i_file + 1
    /\ UNCHANGED <<pc, call_args, indir, state_file, processed_files, files, futures,
                   results, returned, runs, completion, save_failed, batchOthers>>

\* the serial loop is over
SerialEnd ==
    /\ pc = "batch_serial"
    /\ i_file > Len(files)
    /\ pc' = "batch_save"
    /\ UNCHANGED <<call_args, batchVars, batchOthers>>

\* lines 186-192: every file is submitted to the pool
SubmitAll ==
    /\ pc = "batch_submit"
    /\ futures' = [i \in 1 .. Len(files) |-> "pending"]
    /\ results' = <<>>
    /\ pc' = "batch_as_completed"
    /\ UNCHANGED <<call_args, indir, state_file, processed_files, files, all_results,
                   newly_processed, new_results, i_file, returned, runs, attempts,
                   completion, save_failed, batchOthers>>

\* a worker process ends build_map_and_metrics for one submitted file, with
\* the metrics or with an exception
WorkerDone ==
    /\ pc = "batch_as_completed"
    /\ \E i \in DOMAIN futures : \E ok \in BOOLEAN :
          /\ futures[i] = "pending"
          /\ futures' = [futures EXCEPT ![i] = IF ok THEN "result" ELSE "exception"]
          /\ attempts' = IF call_args.incremental
                         THEN [attempts EXCEPT
                                  ![get_file_signature(indir, files[i])] = @ + 1]
                         ELSE attempts
    /\ UNCHANGED <<pc, call_args, indir, state_file, processed_files, files,
                   all_results, newly_processed, new_results, results, i_file,
                   returned, runs, completion, save_failed, batchOthers>>

\* lines 195-220: as_completed yields a future that is done; its result or
\* its error record is stored under the index of its file
AsCompleted ==
    /\ pc = "batch_as_completed"
    /\ \E i \in DOMAIN futures :
          /\ futures[i] # "pending"
          /\ i \notin DOMAIN results
          /\ results' = results @@ (i :> result_of(files[i], futures[i] = "result"))
          /\ newly_processed' =
                 newly_processed \cup {get_file_signature(indir, files[i])}
          /\ completion' = Append(completion, i)
    /\ UNCHANGED <<pc, call_args, indir, state_file, processed_files, files,
                   all_results, new_results, futures, i_file, returned, runs,
                   attempts, save_failed, batchOthers>>

\* lines 223-226: every future was yielded; the results are appended
Gather ==
    /\ pc = "batch_as_completed"
    /\ DOMAIN results = DOMAIN futures
    /\ new_results' = new_results \o gathered(results, completion)
    /\ all_results' = all_results \o gathered(results, completion)
    /\ pc' = "batch_save"
    /\ UNCHANGED <<call_args, indir, state_file, processed_files, files,
                   newly_processed, futures, results, i_file, returned, runs,
                   attempts, completion, save_failed, batchOthers>>

\* lines 229-240: the state is saved in incremental mode, and the call
\* returns state_file
SaveAndReturn ==
    /\ pc = "batch_save"
    /\ IF call_args.incremental /\ newly_processed # {}
       THEN /\ processed_files' = processed_files \cup newly_processed
            /\ state_file' \in save_batch_state(state_file, processed_files', all_results)
            /\ save_failed' =
                   (save_failed \/ state_file' # written_state(processed_files', all_results))
       ELSE UNCHANGED <<processed_files, state_file, save_failed>>
    /\ returned' = "returned"
    /\ pc' = "batch_idle"
    /\ UNCHANGED <<call_args, indir, files, all_results, newly_processed, new_results,
                   futures, results, i_file, runs, attempts, completion, batchOthers>>

NextBatch ==
    \/ TouchFile
    \/ RunBatchBegin
    \/ SerialFile
    \/ SerialEnd
    \/ SubmitAll
    \/ WorkerDone
    \/ AsCompleted
    \/ Gather
    \/ SaveAndReturn
SpecBatch == InitBatch /\ [][NextBatch]_vars

(***************************************************************************)
(* Claims about run_batch (checked under SpecBatch)                        *)
(***************************************************************************)
\* a call is between its first file and its return
RunUnderWay == pc \in {"batch_serial", "batch_submit", "batch_as_completed", "batch_save"}

\* the files the call under way, or the last call, had to process
Attempted == Range(files)

\* no file is processed twice under one signature by the incremental calls
ProcessedAtMostOnce == \A sg \in Signatures : attempts[sg] <= 1

\* a file that the state file records is not among the files to process
RecordedIsSkipped ==
    (RunUnderWay /\ call_args.incremental) =>
        \A f \in Attempted :
            get_file_signature(indir, f) \notin load_batch_state(state_file).processed_files

\* after an incremental call that processed files, each of them is recorded
\* in the state file under the signature it had in that call, those whose
\* processing raised included
AttemptedIsRecorded ==
    (pc = "batch_idle" /\ returned = "returned" /\ call_args.incremental) =>
        /\ \A f \in Attempted :
              \E sg \in load_batch_state(state_file).processed_files :
                  sg[1] = f /\ sg \in newly_processed
        /\ Len(new_results) = Len(files)

\* a call that finds no new file leaves the state file as it was
NoNewFileStep ==
    (pc = "batch_idle" /\ pc' = "batch_idle" /\ runs' # runs) => state_file' = state_file

ResultsOfRunWritten ==
    /\ state_file.exists /\ state_file.valid
    /\ Len(state_file.results) >= Len(new_results)
    /\ SubSeq(state_file.results,
              Len(state_file.results) - Len(new_results) + 1,
              Len(state_file.results)) = new_results

\* C24: every call of run_batch that processes at least one file and returns
\* normally has written the results of that call to the state file whose
\* path it returns, with incremental=True and with incremental=False alike.
C24_ReturnedStateFileIsWritten ==
    (pc = "batch_idle" /\ returned = "returned" /\ files # <<>>) =>
        ResultsOfRunWritten

\* C24, the failing case: the first call, with incremental=False, has
\* processed two files and returned; there is no state file.
C24_Witness ==
    /\ pc = "batch_idle" /\ returned = "returned"
    /\ runs = 1 /\ ~call_args.incremental
    /\ Len(files) = 2 /\ Len(new_results) = 2
    /\ state_file = NoStateFile
    /\ ~save_failed

\* C30: with workers > 1, once every future was yielded, run_batch has
\* appended one result per submitted file, the metrics or the error record
\* of that file, in sorted file order whatever the order of completion, and
\* has marked every submitted file as processed.
C30_ParallelResultsInFileOrder ==
    (pc = "batch_save" /\ call_args.workers > 1) =>
        /\ Len(new_results) = Len(files)
        /\ \A i \in 1 .. Len(files) :
              /\ new_results[i].file = files[i]
              /\ new_results[i].error = (futures[i] = "exception")
              /\ i < Len(files) => files[i] < files[i + 1]
        /\ Len(all_results) >= Len(files)
        /\ SubSeq(all_results, Len(all_results) - Len(files) + 1, Len(all_results))
               = new_results
        /\ newly_processed = {get_file_signature(indir, f) : f \in Attempted}

\* C30 witness: two files submitted, the second completed first and with an
\* exception, the first with its metrics.
C30_Witness ==
    /\ pc = "batch_save" /\ call_args.workers > 1
    /\ files = <<1, 2>>
    /\ completion = <<2, 1>>
    /\ new_results = <<metrics_of(1), error_result_of(2)>>

(***************************************************************************)
(* Further claims about Pipeline._compute (checked under SpecPipeline)     *)
(***************************************************************************)
\* the newest timestamp of the filtered points
NewestFiltered ==
    CHOOSE t \in {filtered[n].timestamp : n \in DOMAIN filtered} :
        \A n \in DOMAIN filtered : filtered[n].timestamp <= t

\* the filtered point of index i (0-based) is within path_timespan_s of the
\* newest filtered timestamp
InPathWindow(i) ==
    filtered[i + 1].timestamp >= NewestFiltered - cfg.path_timespan_s[1]

\* _compute went past the small-sample exit and the filter with a
\* path_timespan_s
PathTimespanCase ==
    /\ ComputeEnded
    /\ Len(clustering_df) >= 10
    /\ raised # "ValueError"
    /\ cfg.path_timespan_s # <<>>

\* C25: with path_timespan_s set, the endpoints are chosen only among the
\* points of the largest component whose timestamp is within path_timespan_s
\* of the newest filtered timestamp: every candidate is within that window,
\* with two candidates or more _compute returns start_idx and end_idx within
\* it, and the graph still holds all the filtered points.
C25_EndpointsWithinPathTimespan ==
    PathTimespanCase =>
        /\ NodeCount(adj) = Len(filtered)
        /\ \A i \in Range(Eligible) : InPathWindow(i)
        /\ Len(Eligible) >= 2 =>
              /\ pc = "compute_returned"
              /\ start_idx \in Range(Eligible) /\ InPathWindow(start_idx)
              /\ end_idx \in Range(Eligible) /\ InPathWindow(end_idx)

\* C25, the failing case: a point older than the window is among the
\* candidates for the endpoints, a point of the largest component within the
\* window is not, and _compute raised TypeError on the way to the choice.
C25_Witness ==
    /\ PathTimespanCase
    /\ Len(Eligible) >= 2
    /\ \E i \in Range(Eligible) : ~InPathWindow(i)
    /\ \E i \in Range(comps[order[1] + 1]) : InPathWindow(i) /\ i \notin Range(Eligible)
    /\ pc = "compute_raised" /\ raised = "TypeError"

\* C26: with fewer than 10 points after the bounding-box and the clustering
\* timespan filters, _compute returns without a filter, a graph, a
\* clustering or a router having run: every point is kept and none is an
\* outlier, the points, if any, form one component of rank 0 whatever their
\* distances, radius_m is 0, path_indices is empty and length_m is 0.
C26_SmallSampleSkipsTheStages ==
    (ComputeEnded /\ Len(clustering_df) < 10) =>
        LET n == Len(clustering_df)
        IN  /\ pc = "compute_returned" /\ raised = None
            /\ k_med = None /\ router = None /\ path_df = None
            /\ filtered = clustering_df
            /\ outliers = <<>>
            /\ DOMAIN keep = 0 .. (n - 1)
            /\ \A i \in 0 .. (n - 1) : keep[i] /\ cluster_id[i] = 0
            /\ DOMAIN cluster_id = 0 .. (n - 1)
            /\ n > 0 => /\ Len(comps) = 1
                        /\ Range(comps[1]) = 0 .. (n - 1)
                        /\ Len(comps[1]) = n
                        /\ sizes = <<n>>
                        /\ order = <<0>>
            /\ n = 0 => comps = <<>> /\ sizes = <<>> /\ order = <<>>
            /\ \A i, j \in 0 .. (n - 1) : adj[i][j] = 0 /\ D_f[i][j] = 0
            /\ radius_m = 0
            /\ path_indices = <<>>
            /\ length_m = 0
            /\ start_idx = None /\ end_idx = None

\* C26 witness: ten points in the bounding box, nine of them left by the
\* clustering timespan, at three different positions.
C26_Witness ==
    /\ pc = "compute_returned"
    /\ Len(hh) = 10
    /\ Len(clustering_df) = 9
    /\ Cardinality({<<filtered[n].lat, filtered[n].lon>> : n \in DOMAIN filtered}) = 3
    /\ comps = <<<<0, 1, 2, 3, 4, 5, 6, 7, 8>>>>
    /\ radius_m = 0

(***************************************************************************)
(* SpecKnn: keep_by_knn called on its own (SpecFilter) and from            *)
(* Pipeline._compute (SpecPipeline)                                        *)
(***************************************************************************)
InitKnn ==
    \/ InitFilter
    \/ InitPipeline
NextKnn ==
    \/ NextFilter
    \/ NextPipeline
SpecKnn == InitKnn /\ [][NextKnn]_vars

\* the points of the mask that are kept
Kept(mask) == {i \in DOMAIN mask : mask[i]}

\* C27: for n >= 1 points, k < n and n_sigmas >= 0, keep_by_knn keeps every
\* point whose k-th-neighbour distance is at most the median of those
\* distances, so at least ceil(n/2) points are kept, and the filtered frame
\* that _compute hands to the graph builder is never empty.
C27_AtLeastHalfKept ==
    /\ (pc = "knn_done" /\ DOMAIN D # {} /\ call_args.n_sigmas >= 0) =>
          LET kth == RefKth(D, call_args.k)
          IN  /\ \A i \in DOMAIN D : 2 * kth[i + 1] <= RefMedian2(kth) => keep[i]
              /\ 2 * Cardinality(Kept(keep)) >= Cardinality(DOMAIN D)
              /\ Kept(keep) # {}
    /\ (pc = "compute_filtered" /\ cfg.n_sigmas >= 0) =>
          /\ 2 * Cardinality(Kept(keep)) >= Len(clustering_df)
          /\ Len(filtered) = Cardinality(Kept(keep))
          /\ filtered # <<>>

\* C27 witness: four points, the median of the k-th-neighbour distances
\* above 30 m, n_sigmas = 0, and exactly half of the points kept.
C27_Witness ==
    /\ pc = "knn_done"
    /\ Cardinality(DOMAIN D) = 4
    /\ call_args.n_sigmas = 0
    /\ RefMedian2(RefKth(D, call_args.k)) > 2 * 300
    /\ Cardinality(Kept(keep)) = 2

plain_begin(a, s) ==
    [dist |-> [v \in DOMAIN a |-> IF v = s THEN 0 ELSE INF],
     prev |-> [v \in DOMAIN a |-> -1],
     pq   |-> {<<0, s>>}]

\* the smallest tuple (d, u) of the heap of dijkstra_plain
plain_heap_top(h) ==
    CHOOSE t \in h : \A o \in h : t[1] < o[1] \/ (t[1] = o[1] /\ t[2] <= o[2])

\* one pass of  while pq:  of dijkstra_plain
plain_iter(a, st) ==
    LET top == plain_heap_top(st.pq)
        st1 == [st EXCEPT !.pq = st.pq \ {top}]
    IN  IF top[1] # st.dist[top[2]] THEN st1
        ELSE plain_for(a[top[2]], 1, st1, top[1], top[2])

\* edge weights for dijkstra_plain: those of PlainWeightTables, and zero on
\* every edge, which makes every cycle of the graph a cycle of cost zero
TerminationWeightTables ==
    PlainWeightTables \cup {[e \in (0 .. NumNodes) \X (0 .. NumNodes) |-> 0]}

\* the locals of the three functions before the call: containers with
\* nothing in them, and no end node
loopLocalsEmpty ==
    /\ dist = <<>> /\ prev_state = <<>> /\ best_dist_to = <<>>
    /\ best_last_prev = <<>> /\ pq = {} /\ prev = <<>>
    /\ end_node = -1 /\ cur = <<>> /\ path_states = <<>> /\ path = <<>>

\* the positions, radii and sources of InitRouter, with no long-edge penalty
\* and no floor under the edge costs: transitions may cost nothing
InitRouterLoop ==
    /\ pc = "dijkstra_call"
    /\ \E Xs, Ys \in [Nodes -> GridCoords] :
       \E ab \in AngleBiasValues, sp \in StepPenaltyValues :
          /\ router = [X |-> Xs, Y |-> Ys, angle_bias_m_per_rad |-> ab,
                       step_penalty_m |-> sp, min_edge_cost_m |-> 0]
          /\ D = pairwise_xy(Xs, Ys)
    /\ k_med \in RouterKMedValues
    /\ L0 = 500
    /\ penalty_factor = 0
    /\ adj = build_graph(D, k_med, L0, penalty_factor).adj
    /\ radius_m = build_graph(D, k_med, L0, penalty_factor).r
    /\ src \in Nodes
    /\ loopLocalsEmpty
    /\ call_args = None /\ G = None
    /\ clusterIdle /\ pipelineIdle /\ batchIdle

InitPlainLoop ==
    /\ pc = "plain_loop_call"
    /\ \E n \in 1 .. NumNodes : \E a \in AdjacencyLists(n), w \in TerminationWeightTables :
          /\ adj = WithWeights(a, w)
          /\ src \in 0 .. (n - 1)
    /\ router = None
    /\ loopLocalsEmpty
    /\ call_args = None /\ G = None
    /\ graphIdle /\ clusterIdle /\ pipelineIdle /\ batchIdle

plainLoopOthers == <<graphVars, clusterVars, pipelineVars, batchVars, router, src,
                     prev_state, best_dist_to, best_last_prev, end_node, cur,
                     path_states, path, call_args, G>>

\* dijkstra_plain(adj, src), up to the loop
PlainBegin ==
    /\ pc = "plain_loop_call"
    /\ dist' = plain_begin(adj, src).dist
    /\ prev' = plain_begin(adj, src).prev
    /\ pq' = plain_begin(adj, src).pq
    /\ pc' = "plain_while"
    /\ UNCHANGED plainLoopOthers

\* one pass of the loop of dijkstra_plain
PlainIter ==
    /\ pc = "plain_while"
    /\ pq # {}
    /\ \E st \in {plain_iter(adj, [dist |-> dist, prev |-> prev, pq |-> pq])} :
           /\ dist' = st.dist
           /\ prev' = st.prev
           /\ pq' = st.pq
    /\ UNCHANGED pc
    /\ UNCHANGED plainLoopOthers

\* the heap is empty: return dist, prev
PlainReturn ==
    /\ pc = "plain_while"
    /\ pq = {}
    /\ pc' = "plain_loop_done"
    /\ UNCHANGED <<dist, prev, pq>>
    /\ UNCHANGED plainLoopOthers

InitTermination == InitRouterLoop \/ InitPlainLoop
NextTermination ==
    \/ DijkstraBegin
    \/ DijkstraIter
    \/ DijkstraReturn
    \/ ReconstructBegin
    \/ ReconstructStep
    \/ ReconstructReturn
    \/ PlainBegin
    \/ PlainIter
    \/ PlainReturn
\* every pass of a loop changes one of these: the position, the heap, or the
\* list of reconstruct_path
loopVars == <<pc, pq, path_states>>
SpecTermination ==
    InitTermination /\ [][NextTermination]_vars /\ WF_loopVars(NextTermination)

\* the chain of backpointers from the state c ends at tgt within n links
RECURSIVE chain_reaches(_, _, _, _)
chain_reaches(ps, c, n, tgt) ==
    IF c \notin DOMAIN ps THEN c = tgt
    ELSE n > 0 /\ chain_reaches(ps, ps[c], n - 1, tgt)

\* from every state recorded in dist the chain of prev_state ends at
\* (src, -1), in no more links than prev_state has keys: with a state met
\* twice the chain would never end
ChainsReachStart ==
    \A st \in DOMAIN dist :
        chain_reaches(prev_state, st, Cardinality(DOMAIN prev_state), <<src, -1>>)

\* no state twice in the list reconstruct_path has built so far
NoStateTwice ==
    \A m, n \in DOMAIN path_states : m # n => path_states[m] # path_states[n]

\* dijkstra_plain has returned with an empty heap; or dijkstra has, and
\* reconstruct_path after it, the chains of backpointers being as claimed
Terminated ==
    \/ pc = "plain_loop_done" /\ pq = {}
    \/ /\ pc = "reconstruct_done" /\ pq = {}
       /\ ChainsReachStart
       /\ NoStateTwice

\* C29: on every adjacency list of the model, whose transition costs are all
\* non-negative, dijkstra and dijkstra_plain terminate (the heap is empty at
\* last and the function returns) and reconstruct_path terminates; the
\* backpointer chain from any recorded state reaches (src, -1) and
\* reconstruct_path meets no state twice.
C29_LoopsTerminate == <>Terminated

\* C29, the case: two points at one place and free transitions (no floor, no
\* penalty) make a cycle of cost zero between the source and another node;
\* dijkstra has returned, and reconstruct_path has returned the path of one
\* link to that node
C29_Witness ==
    /\ pc = "reconstruct_done"
    /\ router.min_edge_cost_m = 0 /\ router.step_penalty_m = 0
    /\ router.angle_bias_m_per_rad = 0
    /\ end_node # src /\ D[src][end_node] = 0
    /\ \E k \in DOMAIN adj[src] : adj[src][k][1] = end_node
    /\ \E k \in DOMAIN adj[end_node] : adj[end_node][k][1] = src
    /\ best_dist_to[end_node] = 0
    /\ path = <<src, end_node>>

====
